---------------------------- MODULE Spec2Model ----------------------------
(***************************************************************************)
(* A model of the behaviour/bias scoring core of the GitLab review         *)
(* analyzer: the keyword based toxicity and constructiveness scorers, the  *)
(* treatment classifier, the negative-pattern detector and the             *)
(* per-developer aggregation (src/src/bias_detector.py and its duplicate   *)
(* src/src/behavior_analyzer.py).                                          *)
(*                                                                         *)
(* Python floats are modelled as exact rationals [n |-> num, d |-> den]    *)
(* with d > 0, kept in lowest terms: the rounding of binary floating point *)
(* (0.1 + 0.2 > 0.3) is not modelled, so a score that meets a threshold    *)
(* exactly here may miss it by one unit in the last place there.  Comment  *)
(* bodies are strings and the `in` / re.search tests are computed          *)
(* character by character.                                                 *)
(***************************************************************************)
EXTENDS Integers, Sequences, FiniteSets, TLC

(***************************************************************************)
(* Bounds of the model.                                                    *)
(***************************************************************************)
\* the longest comment list a method is called with
MaxComments == 2
\* the number of merge requests whose reviews are fetched
MaxFetches == 2
\* the most comments fetched for one merge request
MaxThread == 3
\* the number of phrases a scored text is assembled from
MaxPhrases == 2
\* the most blocking comments behind a classified reviewer
MaxBlocking == 3
\* the most comments one author's merge requests receive in a team-wide call
MaxAuthorComments == 5

(***************************************************************************)
(* Exact arithmetic standing for Python's float arithmetic.                *)
(***************************************************************************)
RECURSIVE GCD(_, _)
GCD(a, b) == IF b = 0 THEN a ELSE GCD(b, a % b)

Abs(i) == IF i < 0 THEN -i ELSE i

\* the rational num/den (den # 0) in lowest terms with a positive denominator
Q(num, den) ==
    LET g == GCD(Abs(num), Abs(den))
        s == IF den < 0 THEN -1 ELSE 1
    IN  [n |-> s * (num \div g), d |-> s * (den \div g)]

QInt(i) == [n |-> i, d |-> 1]
QAdd(a, b) == Q(a.n * b.d + b.n * a.d, a.d * b.d)
QNeg(a) == [n |-> -a.n, d |-> a.d]
QSub(a, b) == QAdd(a, QNeg(b))
QMul(a, b) == Q(a.n * b.n, a.d * b.d)
\* a / k for an integer k # 0 (Python raises ZeroDivisionError when k = 0,
\* which every caller below tests for before it divides)
QDivInt(a, k) == Q(a.n, a.d * k)
QLt(a, b) == a.n * b.d < b.n * a.d
QLe(a, b) == a.n * b.d <= b.n * a.d
QGt(a, b) == QLt(b, a)
QGe(a, b) == QLe(b, a)
QMax(a, b) == IF QGe(a, b) THEN a ELSE b
QMin(a, b) == IF QLe(a, b) THEN a ELSE b

RECURSIVE QSum(_)
\* sum(xs) over a list of rationals
QSum(xs) ==
    IF xs = <<>> THEN QInt(0)
    ELSE IF Len(xs) = 1 THEN QAdd(xs[1], QInt(0))
    ELSE QAdd(QSum(SubSeq(xs, 1, Len(xs) \div 2)),
              QSum(SubSeq(xs, Len(xs) \div 2 + 1, Len(xs))))

RECURSIVE IntSum(_)
\* sum(xs) over a list of integers
IntSum(xs) ==
    IF xs = <<>> THEN 0
    ELSE IF Len(xs) = 1 THEN xs[1]
    ELSE IntSum(SubSeq(xs, 1, Len(xs) \div 2))
         + IntSum(SubSeq(xs, Len(xs) \div 2 + 1, Len(xs)))

(***************************************************************************)
(* Strings: str.lower(), the substring test `kw in text`, and the word     *)
(* boundaries of the toxic regular expressions.                            *)
(***************************************************************************)
LowerChar(c) ==
    CASE c = "A" -> "a" [] c = "B" -> "b" [] c = "C" -> "c" [] c = "D" -> "d"
      [] c = "E" -> "e" [] c = "F" -> "f" [] c = "G" -> "g" [] c = "H" -> "h"
      [] c = "I" -> "i" [] c = "J" -> "j" [] c = "K" -> "k" [] c = "L" -> "l"
      [] c = "M" -> "m" [] c = "N" -> "n" [] c = "O" -> "o" [] c = "P" -> "p"
      [] c = "Q" -> "q" [] c = "R" -> "r" [] c = "S" -> "s" [] c = "T" -> "t"
      [] c = "U" -> "u" [] c = "V" -> "v" [] c = "W" -> "w" [] c = "X" -> "x"
      [] c = "Y" -> "y" [] c = "Z" -> "z" [] OTHER -> c

RECURSIVE Lower(_)
\* str.lower()
Lower(s) ==
    IF Len(s) = 0 THEN ""
    ELSE IF Len(s) = 1 THEN LowerChar(s)
    ELSE Lower(SubSeq(s, 1, Len(s) \div 2))
         \o Lower(SubSeq(s, Len(s) \div 2 + 1, Len(s)))

\* text[i : i + len(kw)] == kw  (i is 1-based)
OccursAt(kw, text, i) ==
    /\ i >= 1
    /\ i + Len(kw) - 1 <= Len(text)
    /\ SubSeq(text, i, i + Len(kw) - 1) = kw

\* kw in text
Contains(text, kw) == \E i \in 1..(Len(text) - Len(kw) + 1) : OccursAt(kw, text, i)

\* the characters the regular expression class \w matches
WordChars ==
    {"a", "b", "c", "d", "e", "f", "g", "h", "i", "j", "k", "l", "m", "n",
     "o", "p", "q", "r", "s", "t", "u", "v", "w", "x", "y", "z",
     "0", "1", "2", "3", "4", "5", "6", "7", "8", "9", "_"}

IsWordAt(text, i) == i >= 1 /\ i <= Len(text) /\ SubSeq(text, i, i) \in WordChars

\* \b just before the character at index i (i in 1..Len(text)+1)
Boundary(text, i) == IsWordAt(text, i - 1) # IsWordAt(text, i)

\* `.*` matches text[from .. to] (possibly empty): any characters but a newline
DotStar(text, from, to) == \A k \in from..to : SubSeq(text, k, k) # "\n"

\* one atom of a toxic pattern, \bword or \bword\b, matches at index i
AtomAt(atom, text, i) ==
    /\ OccursAt(atom.word, text, i)
    /\ Boundary(text, i)
    /\ atom.closed => Boundary(text, i + Len(atom.word))

RECURSIVE MatchFrom(_, _, _, _)
\* atoms k.. of the pattern, each preceded by `.*`, match at or after index pos
MatchFrom(atoms, k, text, pos) ==
    \/ k > Len(atoms)
    \/ \E i \in pos..(Len(text) - Len(atoms[k].word) + 1) :
          /\ DotStar(text, pos, i - 1)
          /\ AtomAt(atoms[k], text, i)
          /\ MatchFrom(atoms, k + 1, text, i + Len(atoms[k].word))

\* re.search(pattern, text) is not None
re_search(atoms, text) ==
    \E i \in 1..(Len(text) - Len(atoms[1].word) + 1) :
        /\ AtomAt(atoms[1], text, i)
        /\ MatchFrom(atoms, 2, text, i + Len(atoms[1].word))

\* sum(1 for kw in kws if kw in text): every list entry counts, a repeated
\* entry counts again
CountHits(kws, text) == Cardinality({i \in 1..Len(kws) : Contains(text, kws[i])})

\* any(kw in text for kw in kws)
AnyHit(kws, text) == \E i \in 1..Len(kws) : Contains(text, kws[i])

(***************************************************************************)
(* BiasDetector.__init__: the instance attributes (thresholds and keyword  *)
(* tables).                                                                *)
(***************************************************************************)
W(word) == [word |-> word, closed |-> TRUE]
Wopen(word) == [word |-> word, closed |-> FALSE]

BiasDetector__init__ ==
    [ sentiment_variance_threshold |-> Q(4, 10),
      negative_sentiment_threshold |-> Q(-2, 10),
      high_rejection_threshold |-> Q(6, 10),
      excessive_comment_threshold |-> 15,
      negative_keywords |->
        << "terrible", "awful", "horrible", "stupid", "dumb", "ridiculous",
           "waste", "nonsense", "garbage", "trash", "pathetic", "useless",
           "incompetent", "lazy", "sloppy", "unprofessional", "horrible",
           "disgusting", "idiotic", "moronic", "shameful" >>,
      toxic_patterns |->
        << << W("bad"), W("code") >>,
           << W("wrong"), W("way") >>,
           << W("hate"), W("this") >>,
           << W("terrible"), W("implementation") >>,
           << Wopen("what"), Wopen("wrong"), W("you") >> >>,
      constructive_keywords |->
        << "suggest", "recommend", "consider", "try", "maybe", "could",
           "would", "perhaps", "how about", "what if", "alternative" >> ]

personal_attacks == << "you are", "you're", "your fault", "you did", "you made" >>

(***************************************************************************)
(* The comment bodies of the ingested comments.  The scorers below keep a  *)
(* table of their values on these bodies for a detector as constructed, so *)
(* that a score is computed once and not once per state.                   *)
(***************************************************************************)
Bodies ==
    { "Please fix this",
      "This is terrible, awful code",
      "See the example in the docs",
      "You are lazy and sloppy" }

(***************************************************************************)
(* The per-comment scorers.                                                *)
(***************************************************************************)
\* a clamp that forgets the upper bound
Clamp01_without_min(x) == QMax(QInt(0), x)

\* max(0.0, min(1.0, x))
Clamp01(x) == QMax(QInt(0), QMin(QInt(1), x))

\* the score before the clamp
RawToxicity(self, text_lower) ==
    LET negative_count == CountHits(self.negative_keywords, text_lower)
        pattern_matches ==
            Cardinality({i \in 1..Len(self.toxic_patterns) :
                            re_search(self.toxic_patterns[i], text_lower)})
        personal_attack_count == CountHits(personal_attacks, text_lower)
        constructive_count == CountHits(self.constructive_keywords, text_lower)
    IN  QSub(QAdd(QAdd(QMul(QInt(negative_count), Q(2, 10)),
                       QMul(QInt(pattern_matches), Q(3, 10))),
                  QMul(QInt(personal_attack_count), Q(25, 100))),
             QMul(QInt(constructive_count), Q(1, 10)))

ToxicityScore(self, text) == Clamp01(RawToxicity(self, Lower(text)))

ToxicityTable == [b \in Bodies |-> ToxicityScore(BiasDetector__init__, b)]

_calculate_toxicity_score(self, text) ==
    IF text \in Bodies /\ self = BiasDetector__init__
    THEN ToxicityTable[text]
    ELSE ToxicityScore(self, text)

\* the constructive keywords of __init__ in the place of the local list
constructive_indicators_of_init ==
    << "suggest", "recommend", "consider", "try", "maybe", "could", "would",
       "perhaps", "how about", "what if", "alternative" >>

constructive_indicators ==
    << "suggest", "recommend", "consider", "try", "how about", "maybe", "could" >>
destructive_indicators == << "bad", "terrible", "wrong", "stupid", "awful" >>
solution_indicators == << "here is", "you can", "try this", "example", "documentation" >>

\* a clamp that forgets the upper bound
Clamp100_without_min(x) == IF x < 0 THEN 0 ELSE x

\* max(0, min(100, x))
Clamp100(x) == IF x < 0 THEN 0 ELSE IF x > 100 THEN 100 ELSE x

\* the score before the clamp
RawConstructiveness(text_lower) ==
    50 + 5 * CountHits(constructive_indicators, text_lower)
       + 10 * CountHits(solution_indicators, text_lower)
       - 10 * CountHits(destructive_indicators, text_lower)
       + (IF Contains(text_lower, "http") \/ Contains(text_lower, "example")
          THEN 15 ELSE 0)

Constructiveness(text) == Clamp100(RawConstructiveness(Lower(text)))

ConstructivenessTable == [b \in Bodies |-> Constructiveness(b)]

_assess_constructiveness(text) ==
    IF text \in Bodies THEN ConstructivenessTable[text] ELSE Constructiveness(text)

blocking_reasons ==
    << [reason |-> "code_quality", keywords |-> << "quality", "standards", "clean", "refactor", "design" >>],
       [reason |-> "testing", keywords |-> << "test", "coverage", "unit test", "integration" >>],
       [reason |-> "documentation", keywords |-> << "docs", "documentation", "comment", "readme" >>],
       [reason |-> "security", keywords |-> << "security", "vulnerability", "auth", "permission" >>],
       [reason |-> "performance", keywords |-> << "performance", "slow", "optimization", "memory" >>],
       [reason |-> "style", keywords |-> << "style", "formatting", "lint", "convention" >>],
       [reason |-> "unclear", keywords |-> << "unclear", "confusing", "understand", "explain" >>] >>

\* the last category that matches
BlockingReason_last_match(comment_body) ==
    LET comment_lower == Lower(comment_body)
        hits == {i \in 1..Len(blocking_reasons) :
                    AnyHit(blocking_reasons[i].keywords, comment_lower)}
    IN  IF hits = {} THEN "other"
        ELSE blocking_reasons[CHOOSE i \in hits : \A j \in hits : j <= i].reason

BlockingReason(comment_body) ==
    LET comment_lower == Lower(comment_body)
        hits == {i \in 1..Len(blocking_reasons) :
                    AnyHit(blocking_reasons[i].keywords, comment_lower)}
    IN  IF hits = {} THEN "other"
        ELSE blocking_reasons[CHOOSE i \in hits : \A j \in hits : i <= j].reason

BlockingReasonTable == [b \in Bodies |-> BlockingReason(b)]

_extract_blocking_reason(comment_body) ==
    IF comment_body \in Bodies THEN BlockingReasonTable[comment_body]
    ELSE BlockingReason(comment_body)

high_severity_words == << "critical", "major", "blocking", "must", "required", "urgent" >>
medium_severity_words == << "should", "important", "needed", "consider" >>

BlockingSeverity(comment_body) ==
    LET comment_lower == Lower(comment_body)
    IN  IF AnyHit(high_severity_words, comment_lower) THEN "high"
        ELSE IF AnyHit(medium_severity_words, comment_lower) THEN "medium"
        ELSE "low"

BlockingSeverityTable == [b \in Bodies |-> BlockingSeverity(b)]

_assess_blocking_severity(comment_body) ==
    IF comment_body \in Bodies THEN BlockingSeverityTable[comment_body]
    ELSE BlockingSeverity(comment_body)

\* any(keyword in body.lower() for keyword in keywords), for a fixed keyword
\* list
BodyHasAny(keywords, body) == AnyHit(keywords, Lower(body))

(***************************************************************************)
(* Lists and dicts.  A Python dict is modelled as the list of its entries  *)
(* in insertion order.                                                     *)
(***************************************************************************)
Range(xs) == {xs[i] : i \in 1..Len(xs)}

Map(F(_), xs) == [i \in 1..Len(xs) |-> F(xs[i])]

Count(P(_), xs) == Cardinality({i \in 1..Len(xs) : P(xs[i])})

\* a grouping that opens a new group for every element
Distinct_with_repeats(xs) == xs

\* the keys of a dict filled from xs, in insertion order: the elements of
\* xs at their first occurrence
Distinct(xs) ==
    LET first == { i \in 1..Len(xs) : \A j \in 1..(i - 1) : xs[j] # xs[i] }
    IN  [k \in 1..Cardinality(first) |->
            xs[CHOOSE i \in first : Cardinality({ j \in first : j < i }) = k - 1]]

\* dict(Counter(xs))
Counter(xs) == [k \in Range(xs) |-> Cardinality({i \in 1..Len(xs) : xs[i] = k})]

RECURSIVE Join(_, _)
\* sep.join(xs)
Join(xs, sep) ==
    IF xs = <<>> THEN ""
    ELSE IF Len(xs) = 1 THEN xs[1]
    ELSE xs[1] \o sep \o Join(Tail(xs), sep)

\* the index of max(xs) / min(xs) as Python finds it: the first of the largest
\* (smallest) elements
FirstMax(xs) == CHOOSE i \in 1..Len(xs) :
                    /\ \A j \in 1..Len(xs) : QGe(xs[i], xs[j])
                    /\ \A j \in 1..(i - 1) : QLt(xs[j], xs[i])
FirstMin(xs) == CHOOSE i \in 1..Len(xs) :
                    /\ \A j \in 1..Len(xs) : QLe(xs[i], xs[j])
                    /\ \A j \in 1..(i - 1) : QGt(xs[j], xs[i])

RECURSIVE SortByToxicityDesc(_)
\* sorted(xs, key=toxicity_score, reverse=True): stable, equal keys keep
\* their order
SortByToxicityDesc(xs) ==
    IF xs = <<>> THEN <<>>
    ELSE LET m == FirstMax(Map(LAMBDA e : e.toxicity_score, xs))
         IN  <<xs[m]>> \o SortByToxicityDesc(
                 SubSeq(xs, 1, m - 1) \o SubSeq(xs, m + 1, Len(xs)))

\* the outcome of a call that raises
Raise(exception) == [raised |-> exception]
Raised(outcome) == "raised" \in DOMAIN outcome

(***************************************************************************)
(* data_models.py                                                          *)
(***************************************************************************)
ApprovalStatus == {"approved", "requested_changes", "commented"}
BiasRiskLevel == {"low", "medium", "high"}

\* SentimentScore (lines 36-58): the three derived properties; the three
\* VADER parts, which they do not read, are left out
SentimentScore_is_negative(self) ==
    QLt(self.textblob_score, Q(-2, 10)) \/ QLt(self.vader_compound, Q(-2, 10))

\* positive as soon as one of the two scores is
SentimentScore_is_positive_either(self) ==
    QGt(self.textblob_score, Q(2, 10)) \/ QGt(self.vader_compound, Q(2, 10))

SentimentScore_is_positive(self) ==
    QGt(self.textblob_score, Q(2, 10)) /\ QGt(self.vader_compound, Q(2, 10))

SentimentScore_is_neutral(self) ==
    ~SentimentScore_is_negative(self) /\ ~SentimentScore_is_positive(self)

\* ReviewComment.__post_init__ (lines 86-89), for a comment constructed with a
\* string as approval_status: ApprovalStatus(value) is the member with that
\* value and raises ValueError when there is none.  A member is written as
\* its value; word_count is not modelled.
ReviewComment__post_init__(self) ==
    IF self.approval_status \in ApprovalStatus THEN self ELSE Raise("ValueError")

(***************************************************************************)
(* BiasDetector: blocking analysis and treatment classification.           *)
(***************************************************************************)
_analyze_blocking_patterns(blocking_behaviors) ==
    IF blocking_behaviors = <<>>
    THEN [frequency |-> 0, patterns |-> <<>>, severity_distribution |-> <<>>]
    ELSE
      LET reasons == Map(LAMBDA b : b.reason, blocking_behaviors)
          severities == Map(LAMBDA b : b.severity, blocking_behaviors)
          constructiveness_scores ==
              Map(LAMBDA b : b.constructiveness, blocking_behaviors)
          consistent ==
              IF Cardinality(Range(reasons)) = 1 /\ Len(reasons) > 2
              THEN << "Consistently blocks for " \o reasons[1] \o " issues" >>
              ELSE <<>>
          escalates ==
              IF 10 * Count(LAMBDA v : v = "high", severities) > 6 * Len(severities)
              THEN << "Tends to escalate issues to high severity" >>
              ELSE <<>>
          avg_constructiveness ==
              Q(IntSum(constructiveness_scores), Len(constructiveness_scores))
          lacks ==
              IF QLt(avg_constructiveness, QInt(40))
              THEN << "Blocking comments lack constructive feedback" >>
              ELSE <<>>
      IN  [frequency |-> Len(blocking_behaviors),
           patterns |-> consistent \o escalates \o lacks,
           severity_distribution |-> Counter(severities),
           avg_constructiveness |-> avg_constructiveness,
           common_reasons |-> Counter(reasons)]

\* a penalty that adds the two penalties up
BlockingPenalty_cumulative(actions, total_reviews, blocking_analysis) ==
    IF blocking_analysis.frequency > 0
    THEN QAdd(IF total_reviews > 0
                 /\ QGt(Q(actions.requested_changes, total_reviews), Q(7, 10))
              THEN Q(-3, 10) ELSE QInt(0),
              IF QLt(blocking_analysis.avg_constructiveness, QInt(40))
              THEN Q(-2, 10) ELSE QInt(0))
    ELSE QInt(0)

\* lines 366-373: the penalty for blocking
BlockingPenalty(actions, total_reviews, blocking_analysis) ==
    IF blocking_analysis.frequency > 0
    THEN LET change_request_rate ==
                 IF total_reviews > 0
                 THEN Q(actions.requested_changes, total_reviews)
                 ELSE QInt(0)
         IN  IF QGt(change_request_rate, Q(7, 10)) THEN Q(-3, 10)
             ELSE IF QLt(blocking_analysis.avg_constructiveness, QInt(40))
                  THEN Q(-2, 10)
                  ELSE QInt(0)
    ELSE QInt(0)

\* lines 364-375: composite_score
CompositeScore(avg_sentiment, avg_toxicity, actions, total_reviews, blocking_analysis) ==
    LET sentiment_score == avg_sentiment
        toxicity_penalty == QMul(QNeg(avg_toxicity), Q(5, 10))
        blocking_penalty == BlockingPenalty(actions, total_reviews, blocking_analysis)
    IN  QAdd(QAdd(sentiment_score, toxicity_penalty), blocking_penalty)

\* a classification whose thresholds are strict
TreatmentOf_strict(composite_score) ==
    IF QGt(composite_score, Q(3, 10))
    THEN [level |-> "Very Supportive", color |-> "#27ae60"]
    ELSE IF QGt(composite_score, Q(1, 10))
    THEN [level |-> "Supportive", color |-> "#2ecc71"]
    ELSE IF QGt(composite_score, Q(-1, 10))
    THEN [level |-> "Neutral", color |-> "#95a5a6"]
    ELSE IF QGt(composite_score, Q(-3, 10))
    THEN [level |-> "Critical", color |-> "#f39c12"]
    ELSE IF QGt(composite_score, Q(-5, 10))
    THEN [level |-> "Very Critical", color |-> "#e67e22"]
    ELSE [level |-> "Potentially Toxic", color |-> "#e74c3c"]

\* lines 377-389: the level of a composite score
TreatmentOf(composite_score) ==
    IF QGe(composite_score, Q(3, 10))
    THEN [level |-> "Very Supportive", color |-> "#27ae60"]
    ELSE IF QGe(composite_score, Q(1, 10))
    THEN [level |-> "Supportive", color |-> "#2ecc71"]
    ELSE IF QGe(composite_score, Q(-1, 10))
    THEN [level |-> "Neutral", color |-> "#95a5a6"]
    ELSE IF QGe(composite_score, Q(-3, 10))
    THEN [level |-> "Critical", color |-> "#f39c12"]
    ELSE IF QGe(composite_score, Q(-5, 10))
    THEN [level |-> "Very Critical", color |-> "#e67e22"]
    ELSE [level |-> "Potentially Toxic", color |-> "#e74c3c"]

_determine_treatment_level(avg_sentiment, avg_toxicity, actions, total_reviews, blocking_analysis) ==
    TreatmentOf(CompositeScore(avg_sentiment, avg_toxicity, actions,
                               total_reviews, blocking_analysis))

(***************************************************************************)
(* BiasDetector: the pattern detector and the per-reviewer documentation.  *)
(***************************************************************************)
\* the local keyword list of _identify_negative_patterns (line 434)
pattern_constructive_keywords == << "suggest", "recommend", "consider", "try", "example" >>

PatternKeywordTable == [b \in Bodies |-> BodyHasAny(pattern_constructive_keywords, b)]

\* line 436: any(keyword in c.body.lower() for keyword in constructive_keywords)
HasPatternKeyword(body) ==
    IF body \in Bodies THEN PatternKeywordTable[body]
    ELSE BodyHasAny(pattern_constructive_keywords, body)

MentionsYouTable == [b \in Bodies |-> BodyHasAny(<< "you" >>, b)]

\* line 485: "you" in comment.body.lower()
MentionsYou(body) ==
    IF body \in Bodies THEN MentionsYouTable[body] ELSE BodyHasAny(<< "you" >>, body)

\* a share of 40% is nitpicking already
_identify_negative_patterns_from_40(self, reviewer, comments) ==
    LET reviewer_comments == SelectSeq(comments, LAMBDA c : c.author = reviewer)
    IN
    IF reviewer_comments = <<>> THEN <<>>
    ELSE
      LET titles == Distinct(Map(LAMBDA c : c.mr_title, reviewer_comments))
          comment_counts_per_mr ==
              Map(LAMBDA t : Count(LAMBDA c : c.mr_title = t, reviewer_comments), titles)
          excessive_mrs ==
              SelectSeq(comment_counts_per_mr,
                        LAMBDA count : count > self.excessive_comment_threshold)
          over ==
              IF 10 * Len(excessive_mrs) > 3 * Len(comment_counts_per_mr)
              THEN << "Tends to over-comment on merge requests" >> ELSE <<>>
          sentiments == Map(LAMBDA c : c.textblob_score, reviewer_comments)
          avg_sentiment == QDivInt(QSum(sentiments), Len(sentiments))
          negative ==
              IF QLt(avg_sentiment, Q(-3, 10))
              THEN << "Consistently negative sentiment in reviews" >> ELSE <<>>
          short_critical_comments ==
              SelectSeq(reviewer_comments,
                        LAMBDA c : Len(c.body) < 50 /\ QLt(c.textblob_score, Q(-2, 10)))
          nitpick ==
              IF 10 * Len(short_critical_comments) >= 4 * Len(reviewer_comments)
              THEN << "Shows nitpicking behavior with short critical comments" >>
              ELSE <<>>
          change_requests ==
              SelectSeq(reviewer_comments,
                        LAMBDA c : c.approval_status = "requested_changes")
          non_constructive ==
              SelectSeq(change_requests,
                        LAMBDA c : ~HasPatternKeyword(c.body))
          blocks ==
              IF change_requests # <<>>
                 /\ 10 * Len(non_constructive) > 5 * Len(change_requests)
              THEN << "Blocks MRs without providing constructive feedback" >>
              ELSE <<>>
      IN  over \o negative \o nitpick \o blocks

_identify_negative_patterns(self, reviewer, comments) ==
    LET reviewer_comments == SelectSeq(comments, LAMBDA c : c.author = reviewer)
    IN
    IF reviewer_comments = <<>> THEN <<>>
    ELSE
      LET titles == Distinct(Map(LAMBDA c : c.mr_title, reviewer_comments))
          comment_counts_per_mr ==
              Map(LAMBDA t : Count(LAMBDA c : c.mr_title = t, reviewer_comments), titles)
          excessive_mrs ==
              SelectSeq(comment_counts_per_mr,
                        LAMBDA count : count > self.excessive_comment_threshold)
          over ==
              IF 10 * Len(excessive_mrs) > 3 * Len(comment_counts_per_mr)
              THEN << "Tends to over-comment on merge requests" >> ELSE <<>>
          sentiments == Map(LAMBDA c : c.textblob_score, reviewer_comments)
          avg_sentiment == QDivInt(QSum(sentiments), Len(sentiments))
          negative ==
              IF QLt(avg_sentiment, Q(-3, 10))
              THEN << "Consistently negative sentiment in reviews" >> ELSE <<>>
          short_critical_comments ==
              SelectSeq(reviewer_comments,
                        LAMBDA c : Len(c.body) < 50 /\ QLt(c.textblob_score, Q(-2, 10)))
          nitpick ==
              IF 10 * Len(short_critical_comments) > 4 * Len(reviewer_comments)
              THEN << "Shows nitpicking behavior with short critical comments" >>
              ELSE <<>>
          change_requests ==
              SelectSeq(reviewer_comments,
                        LAMBDA c : c.approval_status = "requested_changes")
          non_constructive ==
              SelectSeq(change_requests,
                        LAMBDA c : ~HasPatternKeyword(c.body))
          blocks ==
              IF change_requests # <<>>
                 /\ 10 * Len(non_constructive) > 5 * Len(change_requests)
              THEN << "Blocks MRs without providing constructive feedback" >>
              ELSE <<>>
      IN  over \o negative \o nitpick \o blocks

\* the guarded means of lines 452-453
MeanOrZero(xs) == IF xs # <<>> THEN QDivInt(QSum(xs), Len(xs)) ELSE QInt(0)

_determine_communication_style(sentiments, toxicity_scores) ==
    LET avg_sentiment == MeanOrZero(sentiments)
        avg_toxicity == MeanOrZero(toxicity_scores)
    IN  IF QGt(avg_sentiment, Q(2, 10)) /\ QLt(avg_toxicity, Q(2, 10))
        THEN "Encouraging & Constructive"
        ELSE IF QGt(avg_sentiment, QInt(0)) /\ QLt(avg_toxicity, Q(3, 10))
        THEN "Professional & Balanced"
        ELSE IF QGt(avg_sentiment, Q(-2, 10)) /\ QLt(avg_toxicity, Q(4, 10))
        THEN "Direct & Factual"
        ELSE IF QGt(avg_sentiment, Q(-4, 10)) /\ QLt(avg_toxicity, Q(6, 10))
        THEN "Critical & Demanding"
        ELSE "Harsh & Potentially Problematic"

\* one documented instance (lines 478-507); created_at is not modelled
DocumentedInstance(self, comment) ==
    LET toxicity_score == _calculate_toxicity_score(self, comment.body)
        constructiveness_score == _assess_constructiveness(comment.body)
        categories ==
            (IF QGt(toxicity_score, Q(5, 10)) THEN << "Toxic language" >> ELSE <<>>)
         \o (IF MentionsYou(comment.body)
                /\ QLt(comment.textblob_score, Q(-3, 10))
             THEN << "Personal criticism" >> ELSE <<>>)
         \o (IF constructiveness_score < 30
             THEN << "Non-constructive feedback" >> ELSE <<>>)
         \o (IF Len(comment.body) < 50 /\ QLt(comment.textblob_score, Q(-3, 10))
             THEN << "Dismissive comment" >> ELSE <<>>)
    IN  [comment |-> comment,
         toxicity_score |-> toxicity_score,
         constructiveness_score |-> constructiveness_score,
         categories |-> IF categories = <<>> THEN << "Negative sentiment" >>
                        ELSE categories,
         severity |-> IF QGt(toxicity_score, Q(7, 10)) THEN "high"
                      ELSE IF QGt(toxicity_score, Q(4, 10)) THEN "medium"
                      ELSE "low",
         context |-> [mr_title |-> comment.mr_title, mr_author |-> comment.mr_author]]

_document_negative_behavior(self, comments) ==
    SortByToxicityDesc(Map(LAMBDA c : DocumentedInstance(self, c), comments))

\* reviewer_stats is the list of the dict's entries; the emoji that start the
\* recommendation texts are left out
_generate_developer_recommendations(bias_indicators, reviewer_stats) ==
    LET names(P(_)) == Map(LAMBDA e : e.reviewer, SelectSeq(reviewer_stats, P))
        investigate ==
            IF Len(bias_indicators) >= 2
            THEN << "Consider investigating potential bias or harassment",
                    "Implement structured review guidelines to ensure fairness" >>
            ELSE <<>>
        toxic_reviewers == names(LAMBDA e : e.treatment = "Potentially Toxic")
        toxic ==
            IF toxic_reviewers # <<>>
            THEN << "Address toxic behavior from: " \o Join(toxic_reviewers, ", ") >>
            ELSE <<>>
        means == Map(LAMBDA e : e.avg_sentiment, reviewer_stats)
    IN
    \* max([]) raises ValueError
    IF reviewer_stats = <<>> THEN Raise("ValueError")
    ELSE
      LET sentiment_range == QSub(means[FirstMax(means)], means[FirstMin(means)])
          standardize ==
              IF QGt(sentiment_range, Q(6, 10))
              THEN << "Work on standardizing review feedback across the team" >>
              ELSE <<>>
          high_blockers == names(LAMBDA e : QGt(e.change_request_rate, Q(7, 10)))
          blockers ==
              IF high_blockers # <<>>
              THEN << "Review blocking patterns for: " \o Join(high_blockers, ", ") >>
              ELSE <<>>
          recommendations == investigate \o toxic \o standardize \o blockers
      IN  IF recommendations = <<>>
          THEN << "Treatment appears fair and balanced" >>
          ELSE recommendations

(***************************************************************************)
(* BiasDetector: the per-developer aggregation.                            *)
(***************************************************************************)
\* reviewer_actions[reviewer] after the loop of lines 87-90
ActionCounts(reviewer_comments) ==
    [a \in ApprovalStatus |->
        Count(LAMBDA c : c.approval_status = a, reviewer_comments)]

\* a record of blocking behavior that holds every comment of the reviewer
BlockingBehavior_of_every_comment(reviewer_comments) ==
    Map(LAMBDA c : [reason |-> _extract_blocking_reason(c.body),
                    severity |-> _assess_blocking_severity(c.body),
                    constructiveness |-> _assess_constructiveness(c.body)],
        reviewer_comments)

\* reviewer_blocking_behavior[reviewer] after the loop of lines 96-103
BlockingBehavior(reviewer_comments) ==
    Map(LAMBDA c : [reason |-> _extract_blocking_reason(c.body),
                    severity |-> _assess_blocking_severity(c.body),
                    constructiveness |-> _assess_constructiveness(c.body)],
        SelectSeq(reviewer_comments,
                  LAMBDA c : c.approval_status = "requested_changes"))

\* the entry of reviewer_stats built by one round of the loop of lines 107-143
ReviewerStats(self, reviewer, comments) ==
    LET reviewer_comments == SelectSeq(comments, LAMBDA c : c.author = reviewer)
        sentiments == Map(LAMBDA c : c.textblob_score, reviewer_comments)
        toxicity == Map(LAMBDA c : _calculate_toxicity_score(self, c.body),
                        reviewer_comments)
        avg_sentiment == QDivInt(QSum(sentiments), Len(sentiments))
        avg_toxicity == QDivInt(QSum(toxicity), Len(toxicity))
        actions == ActionCounts(reviewer_comments)
        total_reviews == actions.approved + actions.requested_changes + actions.commented
        blocking_analysis ==
            _analyze_blocking_patterns(BlockingBehavior(reviewer_comments))
        treatment_info ==
            _determine_treatment_level(avg_sentiment, avg_toxicity, actions,
                                       total_reviews, blocking_analysis)
        negative_patterns == _identify_negative_patterns(self, reviewer, comments)
        negative_comments ==
            SelectSeq(comments,
                      LAMBDA c : /\ c.author = reviewer
                                 /\ QLt(c.textblob_score,
                                        self.negative_sentiment_threshold))
    IN  [reviewer |-> reviewer,
         avg_sentiment |-> avg_sentiment,
         avg_toxicity |-> avg_toxicity,
         review_count |-> Len(sentiments),
         treatment |-> treatment_info.level,
         treatment_color |-> treatment_info.color,
         approval_rate |-> IF total_reviews > 0
                           THEN Q(actions.approved, total_reviews) ELSE QInt(0),
         change_request_rate |-> IF total_reviews > 0
                                 THEN Q(actions.requested_changes, total_reviews)
                                 ELSE QInt(0),
         blocking_analysis |-> blocking_analysis,
         negative_patterns |-> negative_patterns,
         communication_style |-> _determine_communication_style(sentiments, toxicity),
         negative_comments |-> _document_negative_behavior(self, negative_comments)]

\* indicators for which half of the reviewers is a majority
BiasIndicators_half_is_majority(self, overall_sentiment, sentiment_range, reviewer_stats) ==
    LET critical ==
            Count(LAMBDA e : e.treatment \in {"Critical", "Very Critical",
                                              "Potentially Toxic"}, reviewer_stats)
        toxic ==
            Map(LAMBDA e : e.reviewer,
                SelectSeq(reviewer_stats, LAMBDA e : QGt(e.avg_toxicity, Q(5, 10))))
    IN     (IF QLt(overall_sentiment, self.negative_sentiment_threshold)
            THEN << "Receives generally negative feedback across the team" >>
            ELSE <<>>)
        \o (IF QGt(sentiment_range, QAdd(self.sentiment_variance_threshold, Q(2, 10)))
            THEN << "Very inconsistent treatment from different reviewers" >>
            ELSE <<>>)
        \o (IF 10 * critical >= 5 * Len(reviewer_stats)
            THEN << "Majority of reviewers are critical" >>
            ELSE <<>>)
        \o (IF toxic # <<>>
            THEN << "Potentially toxic behavior from: " \o Join(toxic, ", ") >>
            ELSE <<>>)

\* lines 156-175: the bias indicators raised for a developer
BiasIndicators(self, overall_sentiment, sentiment_range, reviewer_stats) ==
    LET critical_reviewers ==
            SelectSeq(reviewer_stats,
                      LAMBDA e : e.treatment \in {"Critical", "Very Critical",
                                                  "Potentially Toxic"})
        high_toxicity_reviewers ==
            Map(LAMBDA e : e.reviewer,
                SelectSeq(reviewer_stats, LAMBDA e : QGt(e.avg_toxicity, Q(5, 10))))
    IN     (IF QLt(overall_sentiment, self.negative_sentiment_threshold)
            THEN << "Receives generally negative feedback across the team" >>
            ELSE <<>>)
        \o (IF QGt(sentiment_range, QAdd(self.sentiment_variance_threshold, Q(2, 10)))
            THEN << "Very inconsistent treatment from different reviewers" >>
            ELSE <<>>)
        \o (IF 10 * Len(critical_reviewers) > 5 * Len(reviewer_stats)
            THEN << "Majority of reviewers are critical" >>
            ELSE <<>>)
        \o (IF high_toxicity_reviewers # <<>>
            THEN << "Potentially toxic behavior from: "
                       \o Join(high_toxicity_reviewers, ", ") >>
            ELSE <<>>)

\* a risk that is medium from the first indicator on
BiasRisk_medium_from_one(bias_indicators) ==
    IF Len(bias_indicators) >= 3 THEN "high"
    ELSE IF Len(bias_indicators) >= 1 THEN "medium"
    ELSE "low"

\* lines 173-175
BiasRisk(bias_indicators) ==
    IF Len(bias_indicators) >= 3 THEN "high"
    ELSE IF Len(bias_indicators) >= 2 THEN "medium"
    ELSE "low"

\* lines 145-203: the DeveloperTreatment built from the finished
\* reviewer_stats
DeveloperTreatment(self, developer, comments, reviewer_stats) ==
    LET all_sentiments == Map(LAMBDA c : c.textblob_score, comments)
        overall_sentiment ==
            IF all_sentiments # <<>>
            THEN QDivInt(QSum(all_sentiments), Len(all_sentiments))
            ELSE QInt(0)
    IN
    IF reviewer_stats # <<>>
    THEN
      LET means == Map(LAMBDA e : e.avg_sentiment, reviewer_stats)
          most_supportive == reviewer_stats[FirstMax(means)]
          least_supportive == reviewer_stats[FirstMin(means)]
          sentiment_range ==
              QSub(most_supportive.avg_sentiment, least_supportive.avg_sentiment)
          bias_indicators ==
              BiasIndicators(self, overall_sentiment, sentiment_range, reviewer_stats)
      IN  [developer_name |-> developer,
           overall_sentiment |-> overall_sentiment,
           total_reviews |-> Len(comments),
           total_negative_reviews |->
               Count(LAMBDA c : QLt(c.textblob_score,
                                    self.negative_sentiment_threshold), comments),
           sentiment_range |-> sentiment_range,
           bias_indicators |-> bias_indicators,
           bias_risk |-> BiasRisk(bias_indicators),
           recommendations |->
               _generate_developer_recommendations(bias_indicators, reviewer_stats),
           reviewer_stats |-> reviewer_stats]
    ELSE [developer_name |-> developer,
          overall_sentiment |-> overall_sentiment,
          total_reviews |-> Len(comments),
          total_negative_reviews |-> 0,
          sentiment_range |-> QInt(0),
          bias_indicators |-> <<>>,
          bias_risk |-> "low",
          recommendations |-> << "Insufficient data for analysis" >>,
          reviewer_stats |-> <<>>]

\* reviewer_stats has one entry per reviewer, in the order of their first
\* comment
_analyze_individual_developer_treatment(self, developer, comments) ==
    DeveloperTreatment(
        self, developer, comments,
        Map(LAMBDA r : ReviewerStats(self, r, comments),
            Distinct(Map(LAMBDA c : c.author, comments))))

\* the dict developer -> DeveloperTreatment, as the list of its values in
\* insertion order (each value carries its key as developer_name)
\* every developer is analysed on the whole list
analyze_developer_treatment_ungrouped(self, all_comments) ==
    LET developers == Distinct(Map(LAMBDA c : c.mr_author, all_comments))
    IN  Map(LAMBDA developer :
                _analyze_individual_developer_treatment(self, developer,
                                                        all_comments),
            developers)

analyze_developer_treatment(self, all_comments) ==
    LET developers == Distinct(Map(LAMBDA c : c.mr_author, all_comments))
    IN  Map(LAMBDA developer :
                _analyze_individual_developer_treatment(
                    self, developer,
                    SelectSeq(all_comments, LAMBDA c : c.mr_author = developer)),
            developers)

(***************************************************************************)
(* BiasDetector.calculate_bias_indicators.  statistics.stdev(xs) is the    *)
(* square root of Variance(xs); a standard deviation is carried as its     *)
(* square, and compared with a threshold by comparing the squares.         *)
(***************************************************************************)
\* statistics.mean(xs)
Mean(xs) == QDivInt(QSum(xs), Len(xs))

\* statistics.stdev(xs) ** 2, for len(xs) > 1
Variance(xs) ==
    LET m == Mean(xs)
    IN  QDivInt(QSum(Map(LAMBDA v : QMul(QSub(v, m), QSub(v, m)), xs)), Len(xs) - 1)

\* lines 594-605: overall_bias_score ** 2
OverallBiasScoreSquared(author_sentiments) ==
    IF Len(author_sentiments) > 1
    THEN LET author_means ==
                 Map(LAMBDA e : Mean(e.sentiments),
                     SelectSeq(author_sentiments, LAMBDA e : Len(e.sentiments) >= 3))
         IN  IF Len(author_means) > 1
             THEN QMin(QInt(100 * 100), QMul(Variance(author_means), QInt(100 * 100)))
             ELSE QInt(0)
    ELSE QInt(0)

\* a risk that asks for the medium level first
OverallRisk_medium_first(overall_bias_score_squared, potential_bias_targets) ==
    IF QGt(overall_bias_score_squared, QInt(40 * 40))
          \/ Len(potential_bias_targets) > 0
    THEN "medium"
    ELSE IF QGt(overall_bias_score_squared, QInt(70 * 70))
            \/ Len(potential_bias_targets) > 0
    THEN "high"
    ELSE "low"

\* lines 608-610
OverallRisk(overall_bias_score_squared, potential_bias_targets) ==
    IF QGt(overall_bias_score_squared, QInt(70 * 70)) \/ Len(potential_bias_targets) > 0
    THEN "high"
    ELSE IF QGt(overall_bias_score_squared, QInt(40 * 40))
            \/ Len(potential_bias_targets) > 0
    THEN "medium"
    ELSE "low"

\* lines 619-636: one entry of author_analysis
AuthorAnalysis(variance_data) ==
    [author |-> variance_data.author,
     avg_sentiment |-> variance_data.mean,
     review_count |-> variance_data.sample_size,
     sentiment_std_squared |-> variance_data.std_dev_squared,
     risk_level |-> IF QLt(variance_data.mean, Q(-3, 10)) THEN "high"
                    ELSE IF QLt(variance_data.mean, Q(-1, 10)) THEN "medium"
                    ELSE "low",
     patterns |-> IF QLt(variance_data.mean, Q(-3, 10))
                  THEN << "Consistently negative sentiment" >>
                  ELSE IF QLt(variance_data.mean, Q(-1, 10))
                  THEN << "Tendency towards negative feedback" >>
                  ELSE <<>>]

mitigation_strategies_list ==
    << "Implement anonymous code review processes",
       "Use structured review templates and checklists",
       "Provide bias awareness training for reviewers",
       "Monitor review patterns regularly",
       "Establish clear review guidelines and standards" >>

calculate_bias_indicators(self, all_comments) ==
    LET authors == Distinct(Map(LAMBDA c : c.mr_author, all_comments))
        author_sentiments ==
            Map(LAMBDA a : [author |-> a,
                            sentiments |->
                                Map(LAMBDA c : c.textblob_score,
                                    SelectSeq(all_comments,
                                              LAMBDA c : c.mr_author = a))],
                authors)
        sentiment_variance ==
            Map(LAMBDA e : [author |-> e.author,
                            mean |-> Mean(e.sentiments),
                            std_dev_squared |-> Variance(e.sentiments),
                            sample_size |-> Len(e.sentiments)],
                SelectSeq(author_sentiments, LAMBDA e : Len(e.sentiments) >= 3))
        potential_bias_targets ==
            Map(LAMBDA v : [author |-> v.author,
                            mean_sentiment |-> v.mean,
                            review_count |-> v.sample_size],
                SelectSeq(sentiment_variance,
                          LAMBDA v : /\ QLt(v.mean, self.negative_sentiment_threshold)
                                     /\ v.sample_size >= 5))
        overall_risk ==
            OverallRisk(OverallBiasScoreSquared(author_sentiments),
                        potential_bias_targets)
    IN  [overall_risk |-> overall_risk,
         specific_risks |->
             Map(LAMBDA t : "High bias risk detected for " \o t.author,
                 potential_bias_targets),
         author_analysis |-> Map(AuthorAnalysis, sentiment_variance),
         mitigation_strategies |->
             IF overall_risk \in {"medium", "high"}
             THEN mitigation_strategies_list ELSE <<>>,
         sentiment_variance |-> sentiment_variance]

\* a call that leaves a lowered threshold behind
AfterCall_with_side_effect(self) ==
    [self EXCEPT !.negative_sentiment_threshold = QSub(@, Q(1, 10))]

\* the instance attributes after a call of analyze_developer_treatment or
\* calculate_bias_indicators: neither method assigns to an attribute of self
\* or changes one of its lists
AfterCall(self) == self

(***************************************************************************)
(* BehaviorAnalyzer (src/src/behavior_analyzer.py), the second copy of the *)
(* analysis.  Its _assess_constructiveness, _extract_blocking_reason,      *)
(* _assess_blocking_severity, _analyze_blocking_patterns and               *)
(* _generate_developer_recommendations are the same text as BiasDetector's *)
(* and are not repeated; the definitions below are the methods that        *)
(* differ.  It reads comment.sentiment_textblob, the field textblob_score  *)
(* of a comment here.  An unguarded division by a zero length is the       *)
(* outcome Raise("ZeroDivisionError").                                     *)
(***************************************************************************)
BehaviorAnalyzer__init__ ==
    [ negative_comment_keywords |-> BiasDetector__init__.negative_keywords,
      toxic_patterns |-> BiasDetector__init__.toxic_patterns,
      constructive_keywords |-> BiasDetector__init__.constructive_keywords,
      praise_keywords |->
        << "good", "great", "excellent", "nice", "well", "perfect", "awesome",
           "brilliant", "clever", "smart", "elegant", "clean", "beautiful" >>,
      excessive_comment_threshold |-> 15,
      blocking_threshold |-> Q(3, 10),
      negative_sentiment_threshold |-> Q(-2, 10),
      toxicity_threshold |-> Q(7, 10) ]

BA_ToxicityScore(self, text) ==
    Clamp01(RawToxicity([negative_keywords |-> self.negative_comment_keywords,
                         toxic_patterns |-> self.toxic_patterns,
                         constructive_keywords |-> self.constructive_keywords],
                        Lower(text)))

BA_ToxicityTable == [b \in Bodies |-> BA_ToxicityScore(BehaviorAnalyzer__init__, b)]

BA_calculate_toxicity_score(self, text) ==
    IF text \in Bodies /\ self = BehaviorAnalyzer__init__
    THEN BA_ToxicityTable[text]
    ELSE BA_ToxicityScore(self, text)

\* line 237 divides by total_reviews without a guard
BA_determine_treatment_level(avg_sentiment, avg_toxicity, actions, total_reviews, blocking_analysis) ==
    IF blocking_analysis.frequency > 0 /\ total_reviews = 0
    THEN Raise("ZeroDivisionError")
    ELSE TreatmentOf(CompositeScore(avg_sentiment, avg_toxicity, actions,
                                    total_reviews, blocking_analysis))

\* the reviewer argument is not used: every comment of the list counts
BA_identify_negative_patterns(self, reviewer, comments) ==
    IF comments = <<>> THEN Raise("ZeroDivisionError")
    ELSE
      LET sentiments == Map(LAMBDA c : c.textblob_score, comments)
          avg_sentiment == QDivInt(QSum(sentiments), Len(sentiments))
          negative ==
              IF QLt(avg_sentiment, Q(-3, 10))
              THEN << "Consistently negative sentiment in reviews" >> ELSE <<>>
          titles == Distinct(Map(LAMBDA c : c.mr_title, comments))
          comment_counts_per_mr ==
              Map(LAMBDA t : Count(LAMBDA c : c.mr_title = t, comments), titles)
          excessive_comment_mrs ==
              SelectSeq(comment_counts_per_mr,
                        LAMBDA count : count > self.excessive_comment_threshold)
          over ==
              IF 10 * Len(excessive_comment_mrs) > 3 * Len(comment_counts_per_mr)
              THEN << "Tends to over-comment on merge requests" >> ELSE <<>>
          short_critical_comments ==
              SelectSeq(comments,
                        LAMBDA c : Len(c.body) < 50 /\ QLt(c.textblob_score, Q(-2, 10)))
          nitpick ==
              IF 10 * Len(short_critical_comments) > 4 * Len(comments)
              THEN << "Shows nitpicking behavior with short critical comments" >>
              ELSE <<>>
          change_requests ==
              SelectSeq(comments, LAMBDA c : c.approval_status = "requested_changes")
          low_constructiveness_blocks ==
              SelectSeq(change_requests,
                        LAMBDA c : _assess_constructiveness(c.body) < 40)
          blocks ==
              IF 10 * Len(low_constructiveness_blocks) > 5 * Len(change_requests)
              THEN << "Blocks MRs without providing constructive feedback" >>
              ELSE <<>>
      IN  negative \o over \o nitpick \o blocks

BA_determine_communication_style(sentiments, toxicity_scores) ==
    IF sentiments = <<>> \/ toxicity_scores = <<>> THEN Raise("ZeroDivisionError")
    ELSE _determine_communication_style(sentiments, toxicity_scores)

\* Counter(...).most_common(1)[0][0]: the first of the most frequent
DominantTreatment(treatments) ==
    LET keys == Distinct(treatments)
        counts == Map(LAMBDA k : QInt(Count(LAMBDA t : t = k, treatments)), keys)
    IN  IF keys = <<>> THEN "Unknown" ELSE keys[FirstMax(counts)]

BA_generate_treatment_summary(reviewer_stats) ==
    LET treatments == Map(LAMBDA e : e.treatment, reviewer_stats)
        total_reviewers == Len(reviewer_stats)
        supportive == Count(LAMBDA t : t \in {"Very Supportive", "Supportive"}, treatments)
        critical == Count(LAMBDA t : t \in {"Critical", "Very Critical",
                                           "Potentially Toxic"}, treatments)
    IN  IF total_reviewers = 0 THEN Raise("ZeroDivisionError")
        ELSE [treatment_distribution |-> Counter(treatments),
              dominant_treatment |-> DominantTreatment(treatments),
              support_ratio |-> Q(supportive, total_reviewers),
              critical_ratio |-> Q(critical, total_reviewers)]

\* lines 326-344: the bias indicators
BA_BiasIndicators(overall_sentiment, sentiment_range, reviewer_stats) ==
       (IF QLt(overall_sentiment, Q(-2, 10))
        THEN << "Receives generally negative feedback across the team" >> ELSE <<>>)
    \o (IF QGt(sentiment_range, Q(6, 10))
        THEN << "Very inconsistent treatment from different reviewers" >> ELSE <<>>)
    \o (IF 10 * Count(LAMBDA e : e.treatment \in {"Critical", "Very Critical",
                                                   "Potentially Toxic"},
                      reviewer_stats) > 5 * Len(reviewer_stats)
        THEN << "Majority of reviewers are critical" >> ELSE <<>>)
    \o (IF Count(LAMBDA e : QGt(e.avg_toxicity, Q(5, 10)), reviewer_stats) > 0
        THEN << "Some reviewers show toxic behavior patterns" >> ELSE <<>>)

BA_compile_developer_analysis(developer, comments, reviewer_stats) ==
    LET all_sentiments == Map(LAMBDA c : c.textblob_score, comments)
    IN
    \* line 318: sum(all_sentiments) / len(all_sentiments), no guard
    IF all_sentiments = <<>> THEN Raise("ZeroDivisionError")
    ELSE
      LET overall_sentiment == QDivInt(QSum(all_sentiments), Len(all_sentiments))
      IN
      IF reviewer_stats # <<>>
      THEN
        LET means == Map(LAMBDA e : e.avg_sentiment, reviewer_stats)
            most_supportive == reviewer_stats[FirstMax(means)]
            least_supportive == reviewer_stats[FirstMin(means)]
            sentiment_range ==
                QSub(most_supportive.avg_sentiment, least_supportive.avg_sentiment)
            bias_indicators ==
                BA_BiasIndicators(overall_sentiment, sentiment_range, reviewer_stats)
        IN  [reviewer_stats |-> reviewer_stats,
             overall_sentiment |-> overall_sentiment,
             total_reviews |-> Len(comments),
             most_supportive_reviewer |-> most_supportive.reviewer,
             least_supportive_reviewer |-> least_supportive.reviewer,
             sentiment_range |-> sentiment_range,
             bias_indicators |-> bias_indicators,
             bias_risk |-> BiasRisk(bias_indicators),
             treatment_summary |-> BA_generate_treatment_summary(reviewer_stats),
             recommendations |->
                 _generate_developer_recommendations(bias_indicators, reviewer_stats)]
      ELSE <<>>

\* the entry of reviewer_stats built by one round of the loop of lines 89-115
BA_ReviewerStats(self, reviewer, comments) ==
    LET reviewer_comments == SelectSeq(comments, LAMBDA c : c.author = reviewer)
        sentiments == Map(LAMBDA c : c.textblob_score, reviewer_comments)
        toxicity == Map(LAMBDA c : BA_calculate_toxicity_score(self, c.body),
                        reviewer_comments)
        avg_sentiment == QDivInt(QSum(sentiments), Len(sentiments))
        avg_toxicity == QDivInt(QSum(toxicity), Len(toxicity))
        actions == ActionCounts(reviewer_comments)
        total_reviews == actions.approved + actions.requested_changes + actions.commented
        blocking_analysis ==
            _analyze_blocking_patterns(BlockingBehavior(reviewer_comments))
        treatment_info ==
            BA_determine_treatment_level(avg_sentiment, avg_toxicity, actions,
                                         total_reviews, blocking_analysis)
    IN  [reviewer |-> reviewer,
         avg_sentiment |-> avg_sentiment,
         avg_toxicity |-> avg_toxicity,
         review_count |-> Len(sentiments),
         treatment |-> treatment_info.level,
         treatment_color |-> treatment_info.color,
         approval_rate |-> IF total_reviews > 0
                           THEN Q(actions.approved, total_reviews) ELSE QInt(0),
         change_request_rate |-> IF total_reviews > 0
                                 THEN Q(actions.requested_changes, total_reviews)
                                 ELSE QInt(0),
         blocking_analysis |-> blocking_analysis,
         negative_patterns |-> BA_identify_negative_patterns(self, reviewer, comments),
         communication_style |->
             BA_determine_communication_style(sentiments, toxicity)]

\* every reviewer of the loop has a comment in `comments`, so no round of the
\* loop divides by zero; with no comment the loop is skipped and
\* _compile_developer_analysis raises
\* line 76: reviewer_actions[reviewer][comment.approval_status] += 1 raises
\* KeyError for a status that is not a key of the dict of line 69
BA_analyze_individual_developer_treatment(self, developer, comments) ==
    IF \E i \in DOMAIN comments : comments[i].approval_status \notin ApprovalStatus
    THEN Raise("KeyError")
    ELSE BA_compile_developer_analysis(
             developer, comments,
             Map(LAMBDA r : BA_ReviewerStats(self, r, comments),
                 Distinct(Map(LAMBDA c : c.author, comments))))

\* the dict developer -> analysis as the list of its entries
BA_analyze_developer_treatment(self, all_comments) ==
    LET developers == Distinct(Map(LAMBDA c : c.mr_author, all_comments))
    IN  Map(LAMBDA developer :
                [developer |-> developer,
                 analysis |->
                     BA_analyze_individual_developer_treatment(
                         self, developer,
                         SelectSeq(all_comments, LAMBDA c : c.mr_author = developer))],
            developers)

(***************************************************************************)
(* MetricsCalculator.calculate_bias_indicators                             *)
(* (src/src/metrics_calculator.py), the copy of the team-wide score that   *)
(* returns the score itself, and calculate_reviewer_consistency.  They     *)
(* read models.ReviewComment, whose approval_status is a string.           *)
(***************************************************************************)
\* lines 331-336: author_sentiments, as the list of the dict's entries
AuthorSentiments(comments) ==
    Map(LAMBDA a : [author |-> a,
                    sentiments |->
                        Map(LAMBDA c : c.textblob_score,
                            SelectSeq(comments, LAMBDA c : c.mr_author = a))],
        Distinct(Map(LAMBDA c : c.mr_author, comments)))

\* lines 346-367 and 370-380, from the finished author_sentiments
MC_BiasIndicators(comments, author_sentiments) ==
    [sentiment_variance |->
         Map(LAMBDA e : [author |-> e.author,
                         mean |-> Mean(e.sentiments),
                         std_dev_squared |-> Variance(e.sentiments),
                         sample_size |-> Len(e.sentiments)],
             SelectSeq(author_sentiments, LAMBDA e : Len(e.sentiments) >= 3)),
     approval_rate_variance |->
         Map(LAMBDA e :
                 [author |-> e.author,
                  approval_rate |->
                      Q(Count(LAMBDA c : c.mr_author = e.author
                                          /\ c.approval_status = "approved", comments),
                        Len(e.sentiments)),
                  change_request_rate |->
                      Q(Count(LAMBDA c : c.mr_author = e.author
                                          /\ c.approval_status = "changes", comments),
                        Len(e.sentiments)),
                  total_reviews |-> Len(e.sentiments)],
             SelectSeq(author_sentiments, LAMBDA e : Len(e.sentiments) >= 3)),
     potential_bias_targets |->
         Map(LAMBDA e : [author |-> e.author,
                         mean_sentiment |-> Mean(e.sentiments),
                         review_count |-> Len(e.sentiments)],
             SelectSeq(author_sentiments,
                       LAMBDA e : /\ Len(e.sentiments) >= 5
                                  /\ QLt(Mean(e.sentiments), Q(-3, 10)))),
     overall_bias_score_squared |-> OverallBiasScoreSquared(author_sentiments)]

\* line 337: author_approval_rates[mr_author][comment.approval_status] += 1
\* raises KeyError for a status that is not a key of the dict of line 332
MC_calculate_bias_indicators(comments) ==
    IF \E i \in DOMAIN comments :
          comments[i].approval_status \notin {"approved", "changes", "comments"}
    THEN Raise("KeyError")
    ELSE MC_BiasIndicators(comments, AuthorSentiments(comments))

\* lines 300-324: the score of one reviewer.  statistics.stdev is a square
\* root, so the score (max(0, 100 - 100 * stdev) + approval_consistency) / 2
\* is carried as the square of the standard deviation and the approval part
ReviewerConsistency(comments, reviewer) ==
    LET own == SelectSeq(comments, LAMBDA c : c.author = reviewer)
        sentiments == Map(LAMBDA c : c.textblob_score, own)
        approved == Count(LAMBDA c : c.approval_status = "approved", own)
        approval_rate == Q(approved, Len(own))
        distance == QSub(approval_rate, Q(6, 10))
    IN  IF Len(sentiments) < 3
        THEN [score |-> QInt(50)]
        ELSE [sentiment_std_squared |-> Variance(sentiments),
              approval_consistency |->
                  QSub(QInt(100),
                       QMul(QInt(100),
                            IF QLt(distance, QInt(0)) THEN QNeg(distance)
                            ELSE distance))]

\* lines 288-326.  Line 296,
\* reviewer_approval_rates[reviewer][comment.approval_status] += 1, raises
\* KeyError for a status that is not a key of the dict of line 291.  The
\* dict returned is the function from the reviewers to their scores
calculate_reviewer_consistency(comments) ==
    IF \E i \in DOMAIN comments :
          comments[i].approval_status \notin {"approved", "changes", "comments"}
    THEN Raise("KeyError")
    ELSE [r \in { comments[i].author : i \in DOMAIN comments } |->
              ReviewerConsistency(comments, r)]

(***************************************************************************)
(* The optional LLM enhancement (src/src/sentiment_analyzer.py and         *)
(* GitLabAnalyzer.enhance_with_llm of src/src/gitlab_analyzer.py).  What   *)
(* ollama.chat does is not part of the program: a call is handed the       *)
(* response of the chat, which is an exception raised (with its message),  *)
(* or a dict that has a 'message' with a 'content' or has not.  TextBlob   *)
(* and VADER are libraries too: a call of analyze_sentiment is handed what *)
(* each analyzer returns for the text.                                     *)
(***************************************************************************)
\* str.strip(): the text without the blanks and line ends at its two ends
RECURSIVE strip(_)
strip(s) ==
    IF Len(s) = 0 THEN s
    ELSE IF SubSeq(s, 1, 1) \in { " ", "\n", "\t" }
    THEN strip(SubSeq(s, 2, Len(s)))
    ELSE IF SubSeq(s, Len(s), Len(s)) \in { " ", "\n", "\t" }
    THEN strip(SubSeq(s, 1, Len(s) - 1))
    ELSE s

\* float(s) for a decimal numeral: an optional sign, digits and at most one
\* point with a digit on one side of it at least; ValueError for every other
\* string (exponents, inf and nan are left out)
float(s) ==
    LET RECURSIVE value(_)
        value(ds) ==
            IF Len(ds) = 0 THEN 0
            ELSE 10 * value(SubSeq(ds, 1, Len(ds) - 1))
                 + (CHOOSE k \in 0..9 :
                       SubSeq("0123456789", k + 1, k + 1) = SubSeq(ds, Len(ds), Len(ds)))
        RECURSIVE pow10(_)
        pow10(k) == IF k = 0 THEN 1 ELSE 10 * pow10(k - 1)
        digits(ds) ==
            \A i \in 1..Len(ds) :
               \E k \in 1..10 : SubSeq("0123456789", k, k) = SubSeq(ds, i, i)
        signed == Len(s) > 0 /\ SubSeq(s, 1, 1) \in { "-", "+" }
        numeral == IF signed THEN SubSeq(s, 2, Len(s)) ELSE s
        points == { i \in 1..Len(numeral) : SubSeq(numeral, i, i) = "." }
        point == IF points = {} THEN Len(numeral) + 1 ELSE CHOOSE i \in points : TRUE
        whole == SubSeq(numeral, 1, point - 1)
        fraction == SubSeq(numeral, point + 1, Len(numeral))
        magnitude == Q(value(whole) * pow10(Len(fraction)) + value(fraction),
                       pow10(Len(fraction)))
    IN  IF /\ Cardinality(points) <= 1
           /\ Len(whole) + Len(fraction) > 0
           /\ digits(whole) /\ digits(fraction)
        THEN IF signed /\ SubSeq(s, 1, 1) = "-" THEN QNeg(magnitude) ELSE magnitude
        ELSE Raise("ValueError")

\* LLMAnalyzer.analyze without its try/except: what the chat raises is raised
LLMAnalyzer_analyze_unguarded(self, response) ==
    IF ~self.available
    THEN [compound |-> QInt(0), pos |-> QInt(0), neu |-> QInt(1), neg |-> QInt(0)]
    ELSE IF Raised(response) THEN response
    ELSE IF "message" \notin DOMAIN response THEN Raise("KeyError")
    ELSE [compound |-> QInt(0), pos |-> QInt(0), neu |-> QInt(1), neg |-> QInt(0)]

\* LLMAnalyzer.analyze (lines 159-215); response is what self.ollama.chat
\* returns or raises
LLMAnalyzer_analyze(self, response) ==
    LET neutral ==
            [compound |-> QInt(0), pos |-> QInt(0), neu |-> QInt(1), neg |-> QInt(0)]
        vader_like(score) ==
            IF QGt(score, QInt(0))
            THEN [compound |-> score, pos |-> score,
                  neu |-> QSub(QInt(1), score), neg |-> QInt(0)]
            ELSE [compound |-> score, pos |-> QInt(0),
                  neu |-> QSub(QInt(1), QNeg(score)), neg |-> QNeg(score)]
        parsed(content) ==
            IF Raised(float(content)) THEN QInt(0)
            ELSE QMax(QInt(-1), QMin(QInt(1), float(content)))
    IN  IF ~self.available THEN neutral
        \* except Exception (line 213): the chat failed, or the response has
        \* no ['message']['content']
        ELSE IF Raised(response) THEN neutral
        ELSE IF "message" \notin DOMAIN response THEN neutral
        ELSE vader_like(parsed(strip(response.message.content)))

\* json.loads(s) for an object whose members are strings without escapes,
\* which is what the prompt of analyze_detailed asks for; JSONDecodeError
\* for every other text (the responses below hold no other JSON value)
json_loads(s) ==
    LET ch(i) == IF i >= 1 /\ i <= Len(s) THEN SubSeq(s, i, i) ELSE ""
        RECURSIVE skip(_)
        \* the first position from i on that holds no white space
        skip(i) == IF ch(i) \in { " ", "\n", "\t" } THEN skip(i + 1) ELSE i
        RECURSIVE quote(_)
        \* the position of the first double quote from i on, 0 if there is none
        quote(i) == IF i > Len(s) THEN 0
                    ELSE IF ch(i) = "\"" THEN i ELSE quote(i + 1)
        RECURSIVE members(_, _)
        \* the object read so far, with the members from position i on
        members(i, object) ==
            LET k1 == skip(i)
                k2 == quote(k1 + 1)
                colon == skip(k2 + 1)
                v1 == skip(colon + 1)
                v2 == quote(v1 + 1)
                next == skip(v2 + 1)
                key == SubSeq(s, k1 + 1, k2 - 1)
                with == [k \in DOMAIN object \cup { key } |->
                            IF k = key THEN SubSeq(s, v1 + 1, v2 - 1) ELSE object[k]]
            IN  IF ch(k1) # "\"" \/ k2 = 0 THEN Raise("JSONDecodeError")
                ELSE IF ch(colon) # ":" \/ ch(v1) # "\"" \/ v2 = 0
                THEN Raise("JSONDecodeError")
                ELSE IF ch(next) = "," THEN members(next + 1, with)
                ELSE IF ch(next) = "}" /\ skip(next + 1) > Len(s) THEN with
                ELSE Raise("JSONDecodeError")
        open == skip(1)
    IN  IF ch(open) # "{" THEN Raise("JSONDecodeError")
        ELSE IF ch(skip(open + 1)) = "}"
        THEN IF skip(skip(open + 1) + 1) > Len(s) THEN <<>>
             ELSE Raise("JSONDecodeError")
        ELSE members(open + 1, <<>>)

\* LLMAnalyzer.analyze_detailed (lines 217-287); an exception raised carries
\* its message as args
LLMAnalyzer_analyze_detailed(self, response) ==
    LET basic(analysis) ==
            [sentiment |-> "neutral", tone |-> "neutral",
             constructiveness |-> "medium", professionalism |-> "medium",
             analysis |-> analysis]
        head(s, n) == SubSeq(s, 1, IF Len(s) < n THEN Len(s) ELSE n)
        \* re.search(r'\{.*\}', content, re.DOTALL): from the first '{' to the
        \* last '}' behind it
        opens(content) == { i \in 1..Len(content) : SubSeq(content, i, i) = "{" }
        closes(content) == { i \in 1..Len(content) : SubSeq(content, i, i) = "}" }
        first(content) == CHOOSE i \in opens(content) : \A j \in opens(content) : i <= j
        last(content) == CHOOSE i \in closes(content) : \A j \in closes(content) : j <= i
        json_match(content) ==
            IF opens(content) = {} \/ closes(content) = {} THEN <<>>
            ELSE IF last(content) < first(content) THEN <<>>
            ELSE << SubSeq(content, first(content), last(content)) >>
        from_content(content, match) ==
            IF match = <<>> THEN basic(head(content, 200))
            \* except Exception: pass (line 268)
            ELSE IF Raised(json_loads(match[1])) THEN basic(head(content, 200))
            ELSE json_loads(match[1])
    IN  IF ~self.available THEN basic("LLM analysis unavailable")
        \* except Exception as e (line 280)
        ELSE IF Raised(response)
        THEN basic("LLM analysis failed: " \o head(response.args, 100))
        ELSE IF "message" \notin DOMAIN response
        THEN basic("LLM analysis failed: 'message'")
        ELSE from_content(response.message.content,
                          json_match(response.message.content))

\* GitLabAnalyzer.enhance_with_llm (gitlab_analyzer.py lines 380-425), of a
\* module that has been imported; responses[i] is what the i-th ollama.chat
\* returns or raises.  asdict(comment) is the dict of the fields of the
\* comment, which a comment is here.
enhance_with_llm(comments, responses) ==
    LET first_10 == SubSeq(comments, 1, IF Len(comments) < 10 THEN Len(comments) ELSE 10)
    IN  IF \E i \in DOMAIN first_10 :
              Raised(responses[i]) \/ "message" \notin DOMAIN responses[i]
        THEN [i \in DOMAIN comments |->
                 [comment |-> comments[i], llm_analysis |-> "LLM analysis unavailable"]]
        ELSE [i \in DOMAIN first_10 |->
                 [comment |-> first_10[i],
                  llm_analysis |-> responses[i].message.content]]

\* SentimentAnalyzer.__init__ (lines 20-26)
SentimentAnalyzer__init__ ==
    [analyzers |-> << [class |-> "TextBlobAnalyzer"], [class |-> "VaderAnalyzer"] >>,
     _llm_analyzer |-> <<>>]

\* SentimentAnalyzer.set_llm_analyzer (lines 64-71)
set_llm_analyzer(self, llm_analyzer) ==
    [analyzers |-> Append(self.analyzers, llm_analyzer),
     _llm_analyzer |-> << llm_analyzer >>]

\* SentimentAnalyzer.analyze_sentiment (lines 28-43); libraries holds what
\* TextBlob(text).sentiment.polarity, vader.polarity_scores(text) and
\* ollama.chat give for the text
analyze_sentiment(self, libraries) ==
    LET analyze(analyzer) ==
            CASE analyzer.class = "TextBlobAnalyzer" -> libraries.polarity
              [] analyzer.class = "VaderAnalyzer" -> libraries.polarity_scores
              [] analyzer.class = "LLMAnalyzer" ->
                     LLMAnalyzer_analyze(analyzer, libraries.chat)
    IN  << analyze(self.analyzers[1]), analyze(self.analyzers[2]) >>

(***************************************************************************)
(* The inputs.                                                             *)
(***************************************************************************)
Reviewers == {"alice", "bob"}

MergeRequests ==
    { [mr_id |-> 1, mr_title |-> "Add login form", mr_author |-> "carol"],
      [mr_id |-> 2, mr_title |-> "Fix cache expiry", mr_author |-> "dave"] }

\* the textblob polarity attached to a comment
Sentiments == { Q(-5, 10), Q(4, 10) }

ReviewComments ==
    { [author |-> a, body |-> b, mr_id |-> mr.mr_id, mr_title |-> mr.mr_title,
       mr_author |-> mr.mr_author, approval_status |-> st, textblob_score |-> t] :
        a \in Reviewers, b \in Bodies, mr \in MergeRequests,
        st \in ApprovalStatus, t \in Sentiments }

(***************************************************************************)
(* The state: the comment list main.py collects and the number of merge    *)
(* requests fetched, the BiasDetector instance, the results of the team    *)
(* analysis (the latest and the one before), and the method being called   *)
(* with what it returned.                                                  *)
(* An optional value is the empty tuple or a one-element tuple.            *)
(***************************************************************************)
VARIABLES all_comments, fetched, detector, analysis_result, previous_result, call, ret

vars == << all_comments, fetched, detector, analysis_result, previous_result, call, ret >>

NoCall == [op |-> "none"]

Init ==
    /\ all_comments = <<>>
    /\ fetched = 0
    /\ detector = BiasDetector__init__
    /\ analysis_result = <<>>
    /\ previous_result = <<>>
    /\ call = NoCall
    /\ ret = <<>>

\* the reviews fetched for one merge request: a thread of one reviewer's
\* comments, one or MaxThread of them
Threads ==
    { [i \in 1..k |-> c] : c \in ReviewComments, k \in {1, MaxThread} }

\* main.py lines 112-115: the reviews of the next merge request are fetched
\* and appended (the list is not changed once it has been analysed)
Ingest ==
    /\ analysis_result = <<>>
    /\ fetched < MaxFetches
    /\ \E mr_comments \in Threads : all_comments' = all_comments \o mr_comments
    /\ fetched' = fetched + 1
    /\ UNCHANGED << detector, analysis_result, previous_result, call, ret >>

\* main.py lines 122-130: the team analysis, run on the collected list
TeamAnalysis ==
    /\ previous_result' = analysis_result
    /\ analysis_result' =
          << [developer_treatment |-> analyze_developer_treatment(detector, all_comments),
              bias_analysis |-> calculate_bias_indicators(detector, all_comments)] >>
    /\ detector' = AfterCall(AfterCall(detector))
    /\ UNCHANGED << all_comments, fetched, call, ret >>

Next == Ingest \/ TeamAnalysis

Spec == Init /\ [][Next]_vars

(***************************************************************************)
(* The methods called one at a time.  A call is drawn from the bounded     *)
(* sets below, the action of the method stores what it returns (or the     *)
(* exception it raises) in ret.                                            *)
(***************************************************************************)
Phrases ==
    { "This is horrible",
      "terrible implementation, you made bad code",
      "Excellent work, consider refactoring",
      "Maybe try this example: http://wiki",
      "Would an alternative work, perhaps?",
      "Please fix this",
      "You are lazy and sloppy",
      "what is wrong with you",
      "here is the documentation, you can see",
      "stupid awful wrong way",
      "I hate\nthis",
      "what if we could suggest a test" }

RECURSIVE SeqsUpTo(_, _)
\* the lists of at most n elements of S
SeqsUpTo(S, n) ==
    IF n = 0 THEN { <<>> }
    ELSE LET shorter == SeqsUpTo(S, n - 1)
         IN  shorter \cup { Append(xs, x) : xs \in shorter, x \in S }

\* the comment bodies that are scored: up to MaxPhrases phrases
Texts == { Join(ps, " ") : ps \in SeqsUpTo(Phrases, MaxPhrases) }

\* the averages of a reviewer handed to _determine_treatment_level
AvgSentiments ==
    { Q(-6, 10), Q(-35, 100), Q(-3, 10), Q(-1, 10), Q(1, 10), Q(3, 10), Q(5, 10) }
AvgToxicities == { QInt(0), Q(2, 10), QInt(1) }

\* the blocking comments of a reviewer, as the loop of lines 97-107 records them
BlockingBehaviors ==
    SeqsUpTo({ [reason |-> "other", severity |-> "low", constructiveness |-> c] :
                   c \in {30, 50} }, MaxBlocking)

\* a reviewer with the given approvals and blocking comments
TreatmentArguments ==
    { [avg_sentiment |-> s, avg_toxicity |-> t,
       actions |-> [approved |-> a, requested_changes |-> Len(bs), commented |-> 0],
       total_reviews |-> a + Len(bs),
       blocking_analysis |-> _analyze_blocking_patterns(bs)] :
        s \in AvgSentiments, t \in AvgToxicities, a \in {0, 1},
        bs \in BlockingBehaviors }

\* a reviewer record with blocking comments and a review count of zero
ZeroReviewArguments ==
    { [avg_sentiment |-> QInt(0), avg_toxicity |-> QInt(0),
       actions |-> [approved |-> 0, requested_changes |-> 0, commented |-> 0],
       total_reviews |-> 0,
       blocking_analysis |-> _analyze_blocking_patterns(bs)] :
        bs \in BlockingBehaviors }

\* the entries of a reviewer_stats dict handed to a method that reads them
StatEntries(reviewer) ==
    { [reviewer |-> reviewer, treatment |-> t, avg_sentiment |-> s,
       avg_toxicity |-> x, change_request_rate |-> r] :
        t \in { "Supportive", "Critical", "Potentially Toxic" },
        s \in { Q(-5, 10), Q(1, 10), Q(4, 10) },
        x \in { Q(5, 10), Q(6, 10) },
        r \in { Q(7, 10), QInt(1) } }

\* the reviewer_stats dicts: no entry, one entry, or alice's entry followed
\* by bob's
ReviewerStatsDicts ==
         { <<>> }
    \cup { << e >> : e \in StatEntries("alice") \cup StatEntries("bob") }
    \cup { << a, b >> : a \in StatEntries("alice"), b \in StatEntries("bob") }

\* the bias_indicators lists handed to _generate_developer_recommendations
IndicatorLists ==
    { <<>>,
      << "Majority of reviewers are critical" >>,
      << "Receives generally negative feedback across the team",
         "Majority of reviewers are critical" >> }

\* the comment lists handed to _compile_developer_analysis, which reads the
\* sentiments and the length only: one comment, of sentiment -0.5, -0.2 or 0.4
SentimentOnlyComments ==
    { << [author |-> "alice", body |-> "Please fix this", mr_id |-> 1,
          mr_title |-> "Add login form", mr_author |-> "carol",
          approval_status |-> "commented", textblob_score |-> t] >> :
        t \in { Q(-5, 10), Q(-2, 10), Q(4, 10) } }

\* the sentiments of the comments an author receives: all the same, or
\* -0.5 and 0.4 in turn
SentimentPatterns ==
         { << t, t >> : t \in { QInt(-1), Q(-5, 10), Q(-25, 100), Q(4, 10),
                                Q(5, 10), QInt(1) } }
    \cup { << Q(-5, 10), Q(4, 10) >> }

\* the comments on one author's merge request: none, or 2, 3,
\* MaxAuthorComments - 1 or MaxAuthorComments of them
AuthorBlocks(mr_author, approval_status) ==
    LET mr == CHOOSE m \in MergeRequests : m.mr_author = mr_author
    IN       { <<>> }
        \cup { [i \in 1..n |->
                  [author |-> "alice", body |-> "Please fix this", mr_id |-> mr.mr_id,
                   mr_title |-> mr.mr_title, mr_author |-> mr.mr_author,
                   approval_status |-> approval_status,
                   textblob_score |-> p[2 - (i % 2)]]] :
                 n \in { 2, 3, MaxAuthorComments - 1, MaxAuthorComments },
                 p \in SentimentPatterns }

\* the comment lists of a team: carol's comments followed by dave's, all
\* approvals or all change requests
TeamComments ==
    { a \o b : a \in AuthorBlocks("carol", "approved"),
               b \in AuthorBlocks("dave", "approved") }
    \cup { a \o b : a \in AuthorBlocks("carol", "requested_changes"),
                    b \in AuthorBlocks("dave", "requested_changes") }

\* the reviews of one merge request of carol's: three comments of alice's,
\* each a change request, an approval or a plain comment, followed or not by
\* an approval of bob's
TreatmentLoads ==
    LET comment(author, body, approval_status, textblob_score) ==
            [author |-> author, body |-> body, mr_id |-> 1,
             mr_title |-> "Add login form", mr_author |-> "carol",
             approval_status |-> approval_status,
             textblob_score |-> textblob_score]
        by_alice ==
            { comment("alice", "Please fix this", "requested_changes", Q(-5, 10)),
              comment("alice", "See the example in the docs", "approved", Q(4, 10)),
              comment("alice", "See the example in the docs", "commented", Q(4, 10)) }
        by_bob ==
            comment("bob", "See the example in the docs", "approved", Q(4, 10))
    IN  { << x, y, z >> \o tail :
            x \in by_alice, y \in by_alice, z \in by_alice,
            tail \in { <<>>, << by_bob >> } }

\* the comment lists whose reviewers are scored: one merge request's
\* comments of one status by alice, followed by up to two of bob's that
\* approve; the status is one of ReviewComment's documented three or one of
\* the keys of MetricsCalculator's counters
ReviewerLoads ==
    { a \o SubSeq(b, 1, k) :
        a \in UNION { AuthorBlocks("carol", st) :
                        st \in { "approved", "requested_changes", "commented",
                                 "changes", "comments" } },
        b \in { [i \in 1..2 |->
                   [author |-> "bob", body |-> "Looks good", mr_id |-> 1,
                    mr_title |-> "Add login form", mr_author |-> "carol",
                    approval_status |-> "approved",
                    textblob_score |-> Q(4, 10)]] },
        k \in 0..2 }

\* the sentiment scores whose properties are read: both polarities around
\* the thresholds -0.2 and 0.2
SentimentScores ==
    { [textblob_score |-> t, vader_compound |-> v] :
        t, v \in { QInt(-1), Q(-21, 100), Q(-2, 10), QInt(0), Q(2, 10),
                   Q(21, 100), QInt(1) } }

\* the comments of the lists the analyses are called with: a blocking
\* review with sentiment -0.5 or an approval with sentiment 0.4
CallComments ==
    { c \in ReviewComments :
         \/ c.approval_status = "requested_changes" /\ c.textblob_score = Q(-5, 10)
         \/ /\ c.approval_status = "approved" /\ c.textblob_score = Q(4, 10)
            /\ c.body = "See the example in the docs" }

DeveloperComments == { c \in CallComments : c.mr_author = "carol" }

\* comments whose approval_status is a string that names no ApprovalStatus
\* (models.ReviewComment, which BehaviorAnalyzer reads, keeps the string)
UnknownStatusComments ==
    { [c EXCEPT !.approval_status = "dismissed"] :
        c \in { d \in DeveloperComments : d.author = "alice" } }

\* the comments of a busy reviewer: alice's on four merge requests of
\* carol's, of which the second has the title of the first or one of its
\* own; the first two get no comment, half the threshold and one, the
\* threshold, or one more; the last two get one comment or none
ReviewLoads ==
    LET thread(mr_id, mr_title, k) ==
            [i \in 1..k |->
                [author |-> "alice", body |-> "See the example in the docs",
                 mr_id |-> mr_id, mr_title |-> mr_title, mr_author |-> "carol",
                 approval_status |-> "commented", textblob_score |-> Q(4, 10)]]
        n == BiasDetector__init__.excessive_comment_threshold
    IN  { thread(1, "Add login form", a) \o thread(3, t, b)
            \o thread(4, "Update README", c) \o thread(5, "Bump version", d) :
            a, b \in { 0, n \div 2 + 1, n, n + 1 },
            t \in { "Add login form", "Fix cache expiry" },
            c, d \in { 0, 1 } }

\* five comments by alice, of which the first k are short and critical
\* (sentiment -0.5) and the others all of one kind: short and friendly, short
\* with the sentiment -0.2, critical with a body of 50 characters, or
\* critical with a body of 49
NitpickLists ==
    LET comment(body, t) ==
            [author |-> "alice", body |-> body, mr_id |-> 1,
             mr_title |-> "Add login form", mr_author |-> "carol",
             approval_status |-> "commented", textblob_score |-> t]
        others ==
            { comment("Please fix this", Q(4, 10)),
              comment("Please fix this", Q(-2, 10)),
              comment("Please fix this and the other things we discussed.", Q(-5, 10)),
              comment("Please fix this and the other things we discussed", Q(-5, 10)) }
    IN  { [i \in 1..5 |-> IF i <= k THEN comment("Please fix this", Q(-5, 10)) ELSE o] :
            k \in 0..5, o \in others }

\* what ollama.chat gives: an exception, a dict without 'message', or a
\* message whose content is a number (in or out of [-1, 1], with or without
\* white space around it), a word, nothing, or a text with a JSON object
\* (well-formed or not) in it
ChatResponses ==
         { [raised |-> "ConnectionError", args |-> "connection refused"],
           [error |-> "model not found"] }
    \cup { [message |-> [content |-> c]] :
             c \in { "0.5", " -0.7\n", "7", "-3", "0", "positive", "",
                     "Harsh. {\"sentiment\": \"negative\", \"tone\": \"harsh\"}",
                     "{\"sentiment\": negative}" } }

Calls ==
         { [op |-> o, self |-> [class |-> "LLMAnalyzer", available |-> a],
            response |-> r] :
             o \in { "LLMAnalyzer.analyze", "LLMAnalyzer.analyze_detailed" },
             a \in BOOLEAN, r \in ChatResponses }
    \cup { [op |-> "GitLabAnalyzer.enhance_with_llm", comments |-> cs,
            responses |-> rs] :
             cs \in SeqsUpTo({ c \in DeveloperComments : c.author = "alice" },
                             MaxComments),
             rs \in [1..MaxComments ->
                       { r \in ChatResponses :
                            "message" \in DOMAIN r => r.message.content = "positive" }] }
    \cup { [op |-> "SentimentAnalyzer.analyze_sentiment", self |-> a,
            libraries |-> [polarity |-> p, polarity_scores |-> v, chat |-> r]] :
             a \in { SentimentAnalyzer__init__ }
                    \cup { set_llm_analyzer(SentimentAnalyzer__init__,
                                            [class |-> "LLMAnalyzer", available |-> b]) :
                              b \in BOOLEAN },
             p \in { Q(-5, 10), Q(4, 10) },
             v \in { [compound |-> Q(-6, 10), pos |-> QInt(0), neu |-> Q(4, 10),
                      neg |-> Q(6, 10)],
                     [compound |-> Q(5, 10), pos |-> Q(5, 10), neu |-> Q(5, 10),
                      neg |-> QInt(0)] },
             r \in ChatResponses }
    \cup { [op |-> "_extract_blocking_reason", comment_body |-> t] :
             t \in Bodies
                \cup { "", "Please add a unit test and update the docs",
                       "The DESIGN needs tests", "Update the README",
                       "auth is slow", "Fix the formatting, it is confusing",
                       "I do not understand this", "A contest entry", "Too slow",
                       "Explain the memory use, lint it and comment it" } }
    \cup { [op |-> o, text |-> t] :
             o \in { "BiasDetector._calculate_toxicity_score",
                     "BehaviorAnalyzer._calculate_toxicity_score",
                     "_assess_constructiveness" },
             t \in Texts }
    \cup { [op |-> o, args |-> a] :
             o \in { "BiasDetector._determine_treatment_level",
                     "BehaviorAnalyzer._determine_treatment_level" },
             a \in TreatmentArguments \cup ZeroReviewArguments }
    \cup { [op |-> "_generate_developer_recommendations",
           bias_indicators |-> bi, reviewer_stats |-> rs] :
             bi \in IndicatorLists, rs \in ReviewerStatsDicts }
    \cup { [op |-> o, developer |-> "carol", comments |-> cs] :
             o \in { "BiasDetector._analyze_individual_developer_treatment",
                     "BehaviorAnalyzer._analyze_individual_developer_treatment" },
             cs \in SeqsUpTo(DeveloperComments, MaxComments) }
    \cup { [op |-> "BehaviorAnalyzer._analyze_individual_developer_treatment",
           developer |-> "carol", comments |-> cs] :
             cs \in { xs \in SeqsUpTo(DeveloperComments \cup UnknownStatusComments,
                                      MaxComments) :
                         xs # <<>> /\ xs[Len(xs)] \in UnknownStatusComments } }
    \cup { [op |-> "BehaviorAnalyzer._compile_developer_analysis",
           developer |-> "carol", comments |-> cs, reviewer_stats |-> rs] :
             cs \in SentimentOnlyComments, rs \in ReviewerStatsDicts }
    \cup { [op |-> o, all_comments |-> cs] :
             o \in { "BiasDetector.calculate_bias_indicators",
                     "MetricsCalculator.calculate_bias_indicators" },
             cs \in TeamComments }
    \cup { [op |-> "MetricsCalculator.calculate_reviewer_consistency",
            comments |-> cs] : cs \in ReviewerLoads }
    \cup { [op |-> o, reviewer |-> r, comments |-> cs] :
             o \in { "BiasDetector._identify_negative_patterns",
                     "BehaviorAnalyzer._identify_negative_patterns" },
             r \in Reviewers,
             cs \in SeqsUpTo(DeveloperComments, MaxComments) \cup ReviewLoads
                       \cup NitpickLists }
    \cup { [op |-> "SentimentScore", self |-> x] : x \in SentimentScores }
    \cup { [op |-> "ReviewComment.__post_init__", self |-> c] :
             c \in DeveloperComments \cup UnknownStatusComments }
    \cup { [op |-> o, all_comments |-> cs] :
             o \in { "BiasDetector.analyze_developer_treatment",
                     "BehaviorAnalyzer.analyze_developer_treatment" },
             cs \in SeqsUpTo(CallComments, MaxComments) \cup TreatmentLoads }

InitFn ==
    /\ all_comments = <<>>
    /\ fetched = 0
    /\ detector = BiasDetector__init__
    /\ analysis_result = <<>>
    /\ previous_result = <<>>
    /\ call \in Calls
    /\ ret = <<>>

\* what a call leaves alone
callee_frame ==
    << all_comments, fetched, detector, analysis_result, previous_result, call >>

\* bias_detector.py lines 205-235
CalculateToxicity ==
    /\ call.op = "BiasDetector._calculate_toxicity_score"
    /\ ret = <<>>
    /\ ret' = << _calculate_toxicity_score(detector, call.text) >>
    /\ UNCHANGED callee_frame

\* behavior_analyzer.py lines 120-142
BA_CalculateToxicity ==
    /\ call.op = "BehaviorAnalyzer._calculate_toxicity_score"
    /\ ret = <<>>
    /\ ret' = << BA_calculate_toxicity_score(BehaviorAnalyzer__init__, call.text) >>
    /\ UNCHANGED callee_frame

\* bias_detector.py lines 284-311, behavior_analyzer.py lines 177-197
AssessConstructiveness ==
    /\ call.op = "_assess_constructiveness"
    /\ ret = <<>>
    /\ ret' = << _assess_constructiveness(call.text) >>
    /\ UNCHANGED callee_frame

\* bias_detector.py lines 348-389
DetermineTreatmentLevel ==
    /\ call.op = "BiasDetector._determine_treatment_level"
    /\ ret = <<>>
    /\ ret' = << _determine_treatment_level(call.args.avg_sentiment, call.args.avg_toxicity,
                  call.args.actions, call.args.total_reviews,
                  call.args.blocking_analysis) >>
    /\ UNCHANGED callee_frame

\* behavior_analyzer.py lines 227-257
BA_DetermineTreatmentLevel ==
    /\ call.op = "BehaviorAnalyzer._determine_treatment_level"
    /\ ret = <<>>
    /\ ret' = << BA_determine_treatment_level(call.args.avg_sentiment, call.args.avg_toxicity,
                  call.args.actions, call.args.total_reviews,
                  call.args.blocking_analysis) >>
    /\ UNCHANGED callee_frame

\* bias_detector.py lines 512-550, behavior_analyzer.py lines 376-405
GenerateDeveloperRecommendations ==
    /\ call.op = "_generate_developer_recommendations"
    /\ ret = <<>>
    /\ ret' = << _generate_developer_recommendations(call.bias_indicators,
                                                     call.reviewer_stats) >>
    /\ UNCHANGED callee_frame

\* data_models.py lines 45-58: the three properties are read
SentimentScoreProperties ==
    /\ call.op = "SentimentScore"
    /\ ret = <<>>
    /\ ret' = << [is_negative |-> SentimentScore_is_negative(call.self),
                  is_positive |-> SentimentScore_is_positive(call.self),
                  is_neutral |-> SentimentScore_is_neutral(call.self)] >>
    /\ UNCHANGED callee_frame

\* data_models.py lines 86-92
ReviewCommentPostInit ==
    /\ call.op = "ReviewComment.__post_init__"
    /\ ret = <<>>
    /\ ret' = << ReviewComment__post_init__(call.self) >>
    /\ UNCHANGED callee_frame

\* bias_detector.py lines 70-203
AnalyzeIndividual ==
    /\ call.op = "BiasDetector._analyze_individual_developer_treatment"
    /\ ret = <<>>
    /\ ret' = << _analyze_individual_developer_treatment(detector, call.developer,
                                                      call.comments) >>
    /\ UNCHANGED callee_frame

\* behavior_analyzer.py lines 65-118
BA_AnalyzeIndividual ==
    /\ call.op = "BehaviorAnalyzer._analyze_individual_developer_treatment"
    /\ ret = <<>>
    /\ ret' = << BA_analyze_individual_developer_treatment(
                  BehaviorAnalyzer__init__, call.developer, call.comments) >>
    /\ UNCHANGED callee_frame

\* behavior_analyzer.py lines 315-359
BA_CompileDeveloperAnalysis ==
    /\ call.op = "BehaviorAnalyzer._compile_developer_analysis"
    /\ ret = <<>>
    /\ ret' = << BA_compile_developer_analysis(call.developer, call.comments,
                                               call.reviewer_stats) >>
    /\ UNCHANGED callee_frame

\* bias_detector.py lines 48-68
AnalyzeDeveloperTreatment ==
    /\ call.op = "BiasDetector.analyze_developer_treatment"
    /\ ret = <<>>
    /\ ret' = << analyze_developer_treatment(detector, call.all_comments) >>
    /\ UNCHANGED callee_frame

\* behavior_analyzer.py lines 50-63
BA_AnalyzeDeveloperTreatment ==
    /\ call.op = "BehaviorAnalyzer.analyze_developer_treatment"
    /\ ret = <<>>
    /\ ret' = << BA_analyze_developer_treatment(BehaviorAnalyzer__init__,
                                            call.all_comments) >>
    /\ UNCHANGED callee_frame

\* bias_detector.py lines 237-261, behavior_analyzer.py lines 144-161
ExtractBlockingReason ==
    /\ call.op = "_extract_blocking_reason"
    /\ ret = <<>>
    /\ ret' = << _extract_blocking_reason(call.comment_body) >>
    /\ UNCHANGED callee_frame

\* sentiment_analyzer.py lines 159-215
LLMAnalyze ==
    /\ call.op = "LLMAnalyzer.analyze"
    /\ ret = <<>>
    /\ ret' = << LLMAnalyzer_analyze(call.self, call.response) >>
    /\ UNCHANGED callee_frame

\* sentiment_analyzer.py lines 217-287
LLMAnalyzeDetailed ==
    /\ call.op = "LLMAnalyzer.analyze_detailed"
    /\ ret = <<>>
    /\ ret' = << LLMAnalyzer_analyze_detailed(call.self, call.response) >>
    /\ UNCHANGED callee_frame

\* gitlab_analyzer.py lines 380-425
EnhanceWithLLM ==
    /\ call.op = "GitLabAnalyzer.enhance_with_llm"
    /\ ret = <<>>
    /\ ret' = << enhance_with_llm(call.comments, call.responses) >>
    /\ UNCHANGED callee_frame

\* sentiment_analyzer.py lines 28-43
AnalyzeSentiment ==
    /\ call.op = "SentimentAnalyzer.analyze_sentiment"
    /\ ret = <<>>
    /\ ret' = << analyze_sentiment(call.self, call.libraries) >>
    /\ UNCHANGED callee_frame

\* bias_detector.py lines 391-440
IdentifyNegativePatterns ==
    /\ call.op = "BiasDetector._identify_negative_patterns"
    /\ ret = <<>>
    /\ ret' = << _identify_negative_patterns(detector, call.reviewer, call.comments) >>
    /\ UNCHANGED callee_frame

\* behavior_analyzer.py lines 259-297
BA_IdentifyNegativePatterns ==
    /\ call.op = "BehaviorAnalyzer._identify_negative_patterns"
    /\ ret = <<>>
    /\ ret' = << BA_identify_negative_patterns(BehaviorAnalyzer__init__,
                                               call.reviewer, call.comments) >>
    /\ UNCHANGED callee_frame

\* bias_detector.py lines 552-655
CalculateBiasIndicators ==
    /\ call.op = "BiasDetector.calculate_bias_indicators"
    /\ ret = <<>>
    /\ ret' = << calculate_bias_indicators(detector, call.all_comments) >>
    /\ UNCHANGED callee_frame

\* metrics_calculator.py lines 328-395
MC_CalculateBiasIndicators ==
    /\ call.op = "MetricsCalculator.calculate_bias_indicators"
    /\ ret = <<>>
    /\ ret' = << MC_calculate_bias_indicators(call.all_comments) >>
    /\ UNCHANGED callee_frame

\* metrics_calculator.py lines 288-326
CalculateReviewerConsistency ==
    /\ call.op = "MetricsCalculator.calculate_reviewer_consistency"
    /\ ret = <<>>
    /\ ret' = << calculate_reviewer_consistency(call.comments) >>
    /\ UNCHANGED callee_frame

NextFn ==
    \/ CalculateToxicity
    \/ BA_CalculateToxicity
    \/ AssessConstructiveness
    \/ DetermineTreatmentLevel
    \/ BA_DetermineTreatmentLevel
    \/ GenerateDeveloperRecommendations
    \/ SentimentScoreProperties
    \/ ReviewCommentPostInit
    \/ AnalyzeIndividual
    \/ BA_AnalyzeIndividual
    \/ BA_CompileDeveloperAnalysis
    \/ AnalyzeDeveloperTreatment
    \/ BA_AnalyzeDeveloperTreatment
    \/ IdentifyNegativePatterns
    \/ BA_IdentifyNegativePatterns
    \/ CalculateBiasIndicators
    \/ MC_CalculateBiasIndicators
    \/ CalculateReviewerConsistency
    \/ ExtractBlockingReason
    \/ LLMAnalyze
    \/ LLMAnalyzeDetailed
    \/ EnhanceWithLLM
    \/ AnalyzeSentiment

SpecFn == InitFn /\ [][NextFn]_vars

(***************************************************************************)
(* The properties.  Returned(ops) says that a call of one of the methods   *)
(* ops has returned; Result is what it returned.                           *)
(***************************************************************************)
Returned(ops) == call.op \in ops /\ ret # <<>>
Result == ret[1]

ToxicityOps ==
    { "BiasDetector._calculate_toxicity_score",
      "BehaviorAnalyzer._calculate_toxicity_score" }
TreatmentLevelOps ==
    { "BiasDetector._determine_treatment_level",
      "BehaviorAnalyzer._determine_treatment_level" }
IndividualOps ==
    { "BiasDetector._analyze_individual_developer_treatment",
      "BehaviorAnalyzer._analyze_individual_developer_treatment" }

InUnitInterval(q) == QGe(q, QInt(0)) /\ QLe(q, QInt(1))

\* the analyses of the developers in the result of analyze_developer_treatment,
\* of either class
DeveloperAnalyses ==
    IF Returned({"BiasDetector.analyze_developer_treatment"})
    THEN { [developer |-> Result[i].developer_name, analysis |-> Result[i]] :
              i \in DOMAIN Result }
    ELSE IF Returned({"BehaviorAnalyzer.analyze_developer_treatment"})
    THEN Range(Result)
    ELSE {}

\* C1: every toxicity score returned by _calculate_toxicity_score lies in
\* [0,1], and so does every per-reviewer avg_toxicity in the result of
\* analyze_developer_treatment.
C1_ToxicityInUnitInterval ==
    /\ Returned(ToxicityOps) => InUnitInterval(Result)
    /\ \A d \in DeveloperAnalyses :
          \A e \in Range(d.analysis.reviewer_stats) : InUnitInterval(e.avg_toxicity)

\* a text whose hits add up to more than 1 has been scored 1
C1_Witness ==
    /\ Returned({"BiasDetector._calculate_toxicity_score"})
    /\ QGt(RawToxicity(detector, Lower(call.text)), QInt(1))
    /\ Result = QInt(1)

\* C2: every constructiveness score returned by _assess_constructiveness lies
\* in [0,100].
C2_ConstructivenessInRange ==
    Returned({"_assess_constructiveness"}) => Result \in 0..100

\* a text whose credits add up to more than 100 has been scored 100
C2_Witness ==
    /\ Returned({"_assess_constructiveness"})
    /\ RawConstructiveness(Lower(call.text)) > 100
    /\ Result = 100

\* C3: for every developer in the result of analyze_developer_treatment, the
\* review_count entries of reviewer_stats add up to the developer's
\* total_reviews, which is the number of comments on that developer's merge
\* requests.
C3_ReviewCountsAddUp ==
    \A d \in DeveloperAnalyses :
       /\ IntSum(Map(LAMBDA e : e.review_count, d.analysis.reviewer_stats))
            = d.analysis.total_reviews
       /\ d.analysis.total_reviews
            = Count(LAMBDA c : c.mr_author = d.developer, call.all_comments)

\* a developer reviewed by two reviewers has been analysed
C3_Witness ==
    \E d \in DeveloperAnalyses :
       /\ Len(d.analysis.reviewer_stats) = 2
       /\ d.analysis.total_reviews = 2

C5_NoCommentsIsLowRisk ==
    (Returned(IndividualOps) /\ call.comments = <<>>) =>
       /\ ~Raised(Result)
       /\ Result.bias_risk = "low"
       /\ Result.total_reviews = 0
       /\ Result.bias_indicators = <<>>

\* the call of BehaviorAnalyzer with no comment has raised
C5_Witness ==
    /\ Returned({"BehaviorAnalyzer._analyze_individual_developer_treatment"})
    /\ call.comments = <<>>
    /\ Result = Raise("ZeroDivisionError")

\* the composite score of the reviewer handed to _determine_treatment_level
CallComposite ==
    CompositeScore(call.args.avg_sentiment, call.args.avg_toxicity, call.args.actions,
                   call.args.total_reviews, call.args.blocking_analysis)

\* the thresholds of the classification table, highest first
LevelThresholds ==
    << [at_least |-> Q(3, 10), level |-> "Very Supportive"],
       [at_least |-> Q(1, 10), level |-> "Supportive"],
       [at_least |-> Q(-1, 10), level |-> "Neutral"],
       [at_least |-> Q(-3, 10), level |-> "Critical"],
       [at_least |-> Q(-5, 10), level |-> "Very Critical"] >>

\* the level of the first threshold the score reaches
TableLevel(composite_score) ==
    LET reached == { i \in DOMAIN LevelThresholds :
                        QGe(composite_score, LevelThresholds[i].at_least) }
    IN  IF reached = {} THEN "Potentially Toxic"
        ELSE LevelThresholds[CHOOSE i \in reached : \A j \in reached : i <= j].level

\* C6: a call of _determine_treatment_level that returns, returns the level
\* of the first threshold (0.3, 0.1, -0.1, -0.3, -0.5, highest first) the
\* composite score reaches and
\* Potentially Toxic below them all; 0.3, 0.1 and -0.1 themselves give Very
\* Supportive, Supportive and Neutral, -0.35 Very Critical, -0.6 Potentially
\* Toxic.
C6_LevelByOrderedThresholds ==
    (Returned(TreatmentLevelOps) /\ ~Raised(Result)) =>
       /\ Result.level = TableLevel(CallComposite)
       /\ Result.level \in { "Very Supportive", "Supportive", "Neutral", "Critical",
                             "Very Critical", "Potentially Toxic" }
       /\ CallComposite = Q(3, 10) => Result.level = "Very Supportive"
       /\ CallComposite = Q(1, 10) => Result.level = "Supportive"
       /\ CallComposite = Q(-1, 10) => Result.level = "Neutral"
       /\ CallComposite = Q(-35, 100) => Result.level = "Very Critical"
       /\ CallComposite = Q(-6, 10) => Result.level = "Potentially Toxic"

\* a reviewer whose composite score is exactly 0.3 has been classified
C6_Witness ==
    /\ Returned(TreatmentLevelOps)
    /\ CallComposite = Q(3, 10)
    /\ Result.level = "Very Supportive"

\* the reviewer's change-request rate
CallChangeRequestRate ==
    IF call.args.total_reviews = 0 THEN QInt(0)
    ELSE Q(call.args.actions.requested_changes, call.args.total_reviews)

\* the blocking comments average less than 40 in constructiveness
CallBlocksUnconstructively ==
    /\ call.args.blocking_analysis.frequency >= 1
    /\ QLt(call.args.blocking_analysis.avg_constructiveness, QInt(40))

\* avg_sentiment - 0.5 * avg_toxicity + blocking_penalty, with the penalty of
\* section 4.3
StatedComposite ==
    LET blocking_penalty ==
            IF QGt(CallChangeRequestRate, Q(7, 10)) THEN Q(-3, 10)
            ELSE IF CallBlocksUnconstructively THEN Q(-2, 10)
            ELSE QInt(0)
    IN  QAdd(QSub(call.args.avg_sentiment, QMul(Q(1, 2), call.args.avg_toxicity)),
             blocking_penalty)

\* C7: the composite score that a returning call of
\* _determine_treatment_level classifies is
\* avg_sentiment - 0.5 * avg_toxicity + blocking_penalty, the penalty being
\* -0.3 for a change-request rate above 0.7, else -0.2 for blocking comments
\* whose average constructiveness is below 40, else 0: never both.
C7_CompositeScore ==
    (Returned(TreatmentLevelOps) /\ ~Raised(Result)) =>
       /\ CallComposite = StatedComposite
       /\ Result = TreatmentOf(StatedComposite)

\* a reviewer who meets the conditions of both penalties has been classified
\* with the penalty -0.3
C7_Witness ==
    /\ Returned(TreatmentLevelOps)
    /\ QGt(CallChangeRequestRate, Q(7, 10))
    /\ CallBlocksUnconstructively
    /\ CallComposite = QAdd(QSub(call.args.avg_sentiment,
                                 QMul(Q(1, 2), call.args.avg_toxicity)), Q(-3, 10))

\* the bodies with no toxicity keyword, pattern or personal attack and with no
\* constructive keyword, neither of the detector's list nor of the list of
\* _identify_negative_patterns
PlainBodies ==
    { b \in Bodies :
         /\ ~AnyHit(BiasDetector__init__.negative_keywords, Lower(b))
         /\ ~AnyHit(personal_attacks, Lower(b))
         /\ \A i \in DOMAIN BiasDetector__init__.toxic_patterns :
               ~re_search(BiasDetector__init__.toxic_patterns[i], Lower(b))
         /\ ~AnyHit(BiasDetector__init__.constructive_keywords, Lower(b))
         /\ ~AnyHit(pattern_constructive_keywords, Lower(b)) }

\* the reviewers of the call all of whose comments request changes with
\* sentiment -0.5 and a plain body
PlainBlockers ==
    { r \in Reviewers :
         /\ \E i \in DOMAIN call.comments : call.comments[i].author = r
         /\ \A i \in DOMAIN call.comments :
               call.comments[i].author = r =>
                  /\ call.comments[i].approval_status = "requested_changes"
                  /\ call.comments[i].textblob_score = Q(-5, 10)
                  /\ call.comments[i].body \in PlainBodies }

\* C8: a reviewer all of whose comments on a developer's merge requests are
\* requested_changes with sentiment -0.5, no toxicity keyword and no
\* constructive keyword is classified Potentially Toxic and carries both the
\* consistently-negative and the blocks-without-constructive-feedback label.
C8_PlainBlockerIsFlagged ==
    (Returned(IndividualOps) /\ ~Raised(Result)) =>
       \A e \in Range(Result.reviewer_stats) :
          e.reviewer \in PlainBlockers =>
             /\ e.treatment = "Potentially Toxic"
             /\ "Consistently negative sentiment in reviews" \in Range(e.negative_patterns)
             /\ "Blocks MRs without providing constructive feedback"
                   \in Range(e.negative_patterns)

\* BehaviorAnalyzer has analysed a reviewer with two such comments and has not
\* given the blocking label
C8_Witness ==
    /\ Returned({"BehaviorAnalyzer._analyze_individual_developer_treatment"})
    /\ Len(call.comments) = 2
    /\ \E e \in Range(Result.reviewer_stats) :
          /\ e.reviewer \in PlainBlockers
          /\ e.review_count = 2
          /\ e.treatment = "Potentially Toxic"
          /\ "Blocks MRs without providing constructive feedback"
                \notin Range(e.negative_patterns)

\* the number of distinct terms of the list that occur in the text
DistinctHits(keywords, text_lower) ==
    Cardinality({ k \in Range(keywords) : Contains(text_lower, k) })

\* clamp(0.2 N + 0.3 P + 0.25 A - 0.1 C) over the distinct terms
StatedToxicity(text) ==
    LET text_lower == Lower(text)
        N == DistinctHits(BiasDetector__init__.negative_keywords, text_lower)
        P == Cardinality({ p \in Range(BiasDetector__init__.toxic_patterns) :
                              re_search(p, text_lower) })
        A == DistinctHits(personal_attacks, text_lower)
        C == DistinctHits(BiasDetector__init__.constructive_keywords, text_lower)
        sum == QSub(QAdd(QAdd(Q(2 * N, 10), Q(3 * P, 10)), Q(25 * A, 100)), Q(C, 10))
    IN  QMax(QInt(0), QMin(QInt(1), sum))

\* C9: the toxicity score is the clamp to [0,1] of 0.2 N + 0.3 P + 0.25 A
\* - 0.1 C, each distinct negative keyword, toxic pattern, personal attack
\* and constructive keyword counted once: 'horrible' alone scores 0.2, one
\* constructive keyword alone scores 0.
C9_ToxicityCountsDistinctTerms ==
    Returned(ToxicityOps) =>
       /\ Result = StatedToxicity(call.text)
       /\ call.text = "This is horrible" => Result = Q(2, 10)
       /\ call.text = "Excellent work, consider refactoring" => Result = QInt(0)

\* the text whose only hit is 'horrible' has been scored 0.4
C9_Witness ==
    /\ Returned(ToxicityOps)
    /\ call.text = "This is horrible"
    /\ Result = Q(4, 10)

\* the constructive keywords that lower toxicity
ToxicityCreditWords ==
    { "suggest", "recommend", "consider", "try", "maybe", "could", "would",
      "perhaps", "how about", "what if", "alternative" }

\* the keywords that raise constructiveness
ConstructivenessCreditWords ==
    { "suggest", "recommend", "consider", "try", "how about", "maybe", "could" }

\* clamp(50 + 5 c + 10 s - 10 d + 15 for 'http' or 'example'), c counting
\* the words of credit_words in the text
StatedConstructiveness(text, credit_words) ==
    LET text_lower == Lower(text)
        c == Cardinality({ k \in credit_words : Contains(text_lower, k) })
        s == Cardinality({ k \in { "here is", "you can", "try this", "example",
                                   "documentation" } : Contains(text_lower, k) })
        d == Cardinality({ k \in { "bad", "terrible", "wrong", "stupid", "awful" } :
                              Contains(text_lower, k) })
        bonus == IF Contains(text_lower, "http") \/ Contains(text_lower, "example")
                 THEN 15 ELSE 0
        sum == 50 + 5 * c + 10 * s - 10 * d + bonus
    IN  IF sum < 0 THEN 0 ELSE IF sum > 100 THEN 100 ELSE sum

EmptyOrZeroInput ==
    \/ call.op \in TreatmentLevelOps /\ call.args.total_reviews = 0
    \/ call.op = "_generate_developer_recommendations" /\ call.reviewer_stats = <<>>
    \/ call.op \in IndividualOps /\ call.comments = <<>>

\* C11: no ratio or aggregate of the scoring core raises on an empty input
\* or a zero denominator: _determine_treatment_level called with a review
\* count of zero, _generate_developer_recommendations called with no
\* reviewer and the per-developer analysis called with no comment return a
\* value, not ZeroDivisionError or ValueError.
C11_NoAggregateRaises ==
    (ret # <<>> /\ EmptyOrZeroInput) => ~Raised(Result)

\* BehaviorAnalyzer._determine_treatment_level, called with blocking comments
\* and a review count of zero, has raised ZeroDivisionError
C11_Witness ==
    /\ Returned({"BehaviorAnalyzer._determine_treatment_level"})
    /\ call.args.total_reviews = 0
    /\ call.args.blocking_analysis.frequency > 0
    /\ Result = Raise("ZeroDivisionError")

\* the comments of the call whose approval action is none of approved,
\* requested_changes and commented
UnknownActions ==
    IF call.op = "ReviewComment.__post_init__"
    THEN { c \in { call.self } : c.approval_status \notin ApprovalStatus }
    ELSE IF call.op \in IndividualOps
    THEN { c \in Range(call.comments) : c.approval_status \notin ApprovalStatus }
    ELSE {}

\* C12: a comment whose approval action is none of approved,
\* requested_changes and commented is treated as commented: constructing it
\* raises nothing and gives a comment with status commented, and the
\* per-developer analysis of a list that holds it raises nothing and counts
\* every comment of the list.
C12_UnknownActionIsCommented ==
    (ret # <<>> /\ UnknownActions # {}) =>
       /\ ~Raised(Result)
       /\ call.op = "ReviewComment.__post_init__" =>
              Result.approval_status = "commented"
       /\ call.op \in IndividualOps => Result.total_reviews = Len(call.comments)

\* the construction of a comment with the status 'dismissed' has raised
\* ValueError
C12_Witness ==
    /\ Returned({"ReviewComment.__post_init__"})
    /\ call.self.approval_status = "dismissed"
    /\ Result = Raise("ValueError")

\* the methods that return the analysis of one developer
DeveloperAnalysisOps ==
    IndividualOps \cup { "BehaviorAnalyzer._compile_developer_analysis" }

\* one developer has been analysed and has at least one reviewer
AnalysedWithReviewers ==
    /\ Returned(DeveloperAnalysisOps)
    /\ ~Raised(Result)
    /\ Result # <<>>
    /\ Result.reviewer_stats # <<>>

\* the mean sentiment of the comments of the call
CallOverallSentiment ==
    QDivInt(QSum(Map(LAMBDA c : c.textblob_score, call.comments)), Len(call.comments))

\* max reviewer mean - min reviewer mean of the analysis returned
ResultSentimentRange ==
    LET means == { e.avg_sentiment : e \in Range(Result.reviewer_stats) }
        hi == CHOOSE m \in means : \A o \in means : QLe(o, m)
        lo == CHOOSE m \in means : \A o \in means : QLe(m, o)
    IN  QSub(hi, lo)

\* the indicator names the toxic reviewers (BiasDetector) or is the fixed
\* sentence of BehaviorAnalyzer
IsToxicIndicator(indicator) ==
    \/ indicator = "Some reviewers show toxic behavior patterns"
    \/ /\ Len(indicator) > 33
       /\ SubSeq(indicator, 1, 33) = "Potentially toxic behavior from: "

\* C13: for a developer with at least one reviewer the bias indicators are
\* those of the four rules whose condition holds, each at most once:
\* generally negative iff the overall mean sentiment is below -0.2,
\* inconsistent treatment iff the sentiment range is above 0.6, majority
\* critical iff more than half of the reviewers are Critical, Very Critical
\* or Potentially Toxic, toxic behavior iff a reviewer's average toxicity is
\* above 0.5.
C13_IndicatorsByTheFourRules ==
    AnalysedWithReviewers =>
       LET fired == Range(Result.bias_indicators)
           stats == Range(Result.reviewer_stats)
           critical == { e \in stats : e.treatment \in { "Critical", "Very Critical",
                                                         "Potentially Toxic" } }
       IN  /\ Len(Result.bias_indicators) = Cardinality(fired)
           /\ \A i \in fired :
                 \/ i \in { "Receives generally negative feedback across the team",
                            "Very inconsistent treatment from different reviewers",
                            "Majority of reviewers are critical" }
                 \/ IsToxicIndicator(i)
           /\ "Receives generally negative feedback across the team" \in fired
                 <=> QLt(CallOverallSentiment, Q(-2, 10))
           /\ "Very inconsistent treatment from different reviewers" \in fired
                 <=> QGt(ResultSentimentRange, Q(6, 10))
           /\ "Majority of reviewers are critical" \in fired
                 <=> 2 * Cardinality(critical) > Cardinality(stats)
           /\ (\E i \in fired : IsToxicIndicator(i))
                 <=> \E e \in stats : QGt(e.avg_toxicity, Q(5, 10))

\* BiasDetector has analysed a developer with a toxic critical reviewer and a
\* supportive one: the treatment is inconsistent and toxic, and one critical
\* reviewer of two is no majority
C13_Witness ==
    /\ Returned({"BiasDetector._analyze_individual_developer_treatment"})
    /\ Len(Result.reviewer_stats) = 2
    /\ Result.bias_indicators =
          << "Very inconsistent treatment from different reviewers",
             "Potentially toxic behavior from: alice" >>
    /\ \E e \in Range(Result.reviewer_stats) : e.treatment = "Potentially Toxic"

\* C14: the bias_risk of a developer's analysis is high iff at least three
\* bias indicators fired, medium iff exactly two fired and low iff none or
\* one fired; it is one of low, medium and high.
C14_RiskByIndicatorCount ==
    (Returned(DeveloperAnalysisOps) /\ ~Raised(Result) /\ Result # <<>>) =>
       LET fired == Len(Result.bias_indicators)
       IN  /\ Result.bias_risk \in BiasRiskLevel
           /\ Result.bias_risk = "high" <=> fired >= 3
           /\ Result.bias_risk = "medium" <=> fired = 2
           /\ Result.bias_risk = "low" <=> fired \in {0, 1}

\* BiasDetector has analysed a developer for whom exactly three indicators
\* fired and has rated the risk high
C14_Witness ==
    /\ Returned({"BiasDetector._analyze_individual_developer_treatment"})
    /\ Len(Result.bias_indicators) = 3
    /\ Result.bias_risk = "high"

\* the methods that compute the team-wide bias score
TeamOps ==
    { "BiasDetector.calculate_bias_indicators",
      "MetricsCalculator.calculate_bias_indicators" }

\* the sentiments of the comments of the call on the merge requests of author
CallSentimentsOf(author) ==
    Map(LAMBDA c : c.textblob_score,
        SelectSeq(call.all_comments, LAMBDA c : c.mr_author = author))

\* the mean of these sentiments
CallMeanOf(author) ==
    QDivInt(QSum(CallSentimentsOf(author)), Len(CallSentimentsOf(author)))

\* the authors of the call with at least 3 comments, in the order of their
\* first comment
QualifyingAuthors ==
    SelectSeq(Distinct(Map(LAMBDA c : c.mr_author, call.all_comments)),
              LAMBDA a : Len(CallSentimentsOf(a)) >= 3)

\* the square of the stated score: 0 with fewer than 2 qualifying authors,
\* else min(100, 100 * stdev(means)) squared
StatedBiasScoreSquared ==
    IF Len(QualifyingAuthors) < 2 THEN QInt(0)
    ELSE LET means == Map(CallMeanOf, QualifyingAuthors)
             mean == QDivInt(QSum(means), Len(means))
             squares == Map(LAMBDA v : QMul(QSub(v, mean), QSub(v, mean)), means)
             stdev_squared == QDivInt(QSum(squares), Len(means) - 1)
         IN  QMin(QInt(10000), QMul(QInt(10000), stdev_squared))

\* the square of the score the call computed: the overall_bias_score
\* MetricsCalculator returns, the local overall_bias_score of BiasDetector
\* (lines 594-605), which its BiasAnalysis does not carry
ComputedBiasScoreSquared ==
    IF call.op = "MetricsCalculator.calculate_bias_indicators"
    THEN Result.overall_bias_score_squared
    ELSE OverallBiasScoreSquared(AuthorSentiments(call.all_comments))

\* the authors of the per-author analysis returned
AnalysedAuthors ==
    { e.author : e \in Range(Result.sentiment_variance) }
    \cup (IF call.op = "BiasDetector.calculate_bias_indicators"
          THEN { e.author : e \in Range(Result.author_analysis) }
          ELSE {})

\* C15: calculate_bias_indicators computes the overall bias score from the
\* authors with at least 3 comments: 0 with fewer than 2 of them, else
\* min(100, 100 * stdev of their mean sentiments); the score lies in
\* [0,100], and the per-author analysis holds the authors with at least 3
\* comments only.
C15_ScoreFromQualifyingAuthors ==
    Returned(TeamOps) =>
       /\ ~Raised(Result)
       /\ ComputedBiasScoreSquared = StatedBiasScoreSquared
       /\ QGe(ComputedBiasScoreSquared, QInt(0))
       /\ QLe(ComputedBiasScoreSquared, QInt(10000))
       /\ AnalysedAuthors = Range(QualifyingAuthors)

\* MetricsCalculator, called with the change requests on one author's merge
\* request, has raised KeyError
C15_Witness ==
    /\ Returned({"MetricsCalculator.calculate_bias_indicators"})
    /\ Len(call.all_comments) = 3
    /\ \A i \in DOMAIN call.all_comments :
          call.all_comments[i].approval_status = "requested_changes"
    /\ Result = Raise("KeyError")

\* the authors the claim flags: mean sentiment below -0.3 over at least 5
\* comments
StatedFlaggedAuthors ==
    { a \in { c.mr_author : c \in Range(call.all_comments) } :
         /\ Len(CallSentimentsOf(a)) >= 5
         /\ QLt(CallMeanOf(a), Q(-3, 10)) }

\* the authors the call flagged: those of potential_bias_targets, which
\* BiasDetector returns as one specific risk per target
FlaggedAuthors ==
    IF call.op = "MetricsCalculator.calculate_bias_indicators"
    THEN { t.author : t \in Range(Result.potential_bias_targets) }
    ELSE { a \in { c.mr_author : c \in Range(call.all_comments) } :
              "High bias risk detected for " \o a \in Range(Result.specific_risks) }

\* C16: calculate_bias_indicators flags an author iff the author's mean
\* sentiment is below -0.3 over at least 5 comments; the overall risk is
\* high iff the bias score is above 70 or an author is flagged, medium iff
\* it is not high and the score is above 40, and low otherwise.
C16_FlagsAndOverallRisk ==
    (Returned(TeamOps) /\ ~Raised(Result)) =>
       /\ FlaggedAuthors = StatedFlaggedAuthors
       /\ call.op = "BiasDetector.calculate_bias_indicators" =>
              LET high == \/ QGt(StatedBiasScoreSquared, QInt(70 * 70))
                          \/ StatedFlaggedAuthors # {}
                  medium == ~high /\ QGt(StatedBiasScoreSquared, QInt(40 * 40))
              IN  /\ Result.overall_risk = "high" <=> high
                  /\ Result.overall_risk = "medium" <=> medium
                  /\ Result.overall_risk = "low" <=> ~high /\ ~medium

\* BiasDetector, called with five comments of sentiment -0.25 on carol's
\* merge request, has flagged carol and rated the risk high
C16_Witness ==
    /\ Returned({"BiasDetector.calculate_bias_indicators"})
    /\ Len(call.all_comments) = 5
    /\ \A i \in DOMAIN call.all_comments :
          /\ call.all_comments[i].mr_author = "carol"
          /\ call.all_comments[i].textblob_score = Q(-25, 100)
    /\ Result.specific_risks = << "High bias risk detected for carol" >>
    /\ Result.overall_risk = "high"

\* the comments of the call written by the reviewer of the call
CallReviewerComments ==
    SelectSeq(call.comments, LAMBDA c : c.author = call.reviewer)

\* C17: _identify_negative_patterns returns the empty list, and raises
\* nothing, when the reviewer has no comment in the list, and flags no
\* pattern whose ratio has the denominator 0: no over-commenting and no
\* nitpicking without a comment of the reviewer, no blocking without
\* constructive feedback without a change request of the reviewer.
C17_NoCommentsNoPatterns ==
    Returned({ "BiasDetector._identify_negative_patterns",
               "BehaviorAnalyzer._identify_negative_patterns" }) =>
       /\ CallReviewerComments = <<>> => Result = <<>>
       /\ CallReviewerComments = <<>> =>
              /\ "Tends to over-comment on merge requests" \notin Range(Result)
              /\ "Shows nitpicking behavior with short critical comments"
                    \notin Range(Result)
       /\ (\A i \in DOMAIN CallReviewerComments :
              CallReviewerComments[i].approval_status # "requested_changes") =>
              "Blocks MRs without providing constructive feedback" \notin Range(Result)

\* BehaviorAnalyzer._identify_negative_patterns, called with the empty list,
\* has raised ZeroDivisionError
C17_Witness ==
    /\ Returned({"BehaviorAnalyzer._identify_negative_patterns"})
    /\ call.comments = <<>>
    /\ Result = Raise("ZeroDivisionError")

\* C18: of is_negative, is_positive and is_neutral exactly one is true:
\* is_negative iff the textblob score or the VADER compound is below -0.2,
\* is_positive iff both are above 0.2, is_neutral in every other case; a
\* score whose two values are -0.2 or 0.2 is neutral.
C18_ExactlyOneSentimentClass ==
    Returned({"SentimentScore"}) =>
       LET t == call.self.textblob_score
           v == call.self.vader_compound
           negative == QLt(t, Q(-2, 10)) \/ QLt(v, Q(-2, 10))
           positive == QGt(t, Q(2, 10)) /\ QGt(v, Q(2, 10))
       IN  /\ Cardinality({ k \in { "is_negative", "is_positive", "is_neutral" } :
                               Result[k] }) = 1
           /\ Result.is_negative <=> negative
           /\ Result.is_positive <=> positive
           /\ Result.is_neutral <=> ~negative /\ ~positive
           /\ ({ t, v } \subseteq { Q(-2, 10), Q(2, 10) }) => Result.is_neutral

\* the properties of a score with textblob -0.2 and compound 0.2 have been
\* read: it is neutral
C18_Witness ==
    /\ Returned({"SentimentScore"})
    /\ call.self = [textblob_score |-> Q(-2, 10), vader_compound |-> Q(2, 10)]
    /\ Result = [is_negative |-> FALSE, is_positive |-> FALSE, is_neutral |-> TRUE]

\* C19: analyze_developer_treatment partitions its input: the result has one
\* entry per distinct mr_author of the list, a comment is counted in the
\* review_count of its author under its mr_author and nowhere else, and the
\* total_reviews of the developers add up to the number of comments.
C19_CommentsPartitioned ==
    Returned({ "BiasDetector.analyze_developer_treatment",
               "BehaviorAnalyzer.analyze_developer_treatment" }) =>
       /\ { d.developer : d \in DeveloperAnalyses }
             = { c.mr_author : c \in Range(call.all_comments) }
       /\ Len(Result) = Cardinality({ c.mr_author : c \in Range(call.all_comments) })
       /\ \A d \in DeveloperAnalyses : \A r \in Reviewers :
              LET stats == d.analysis.reviewer_stats
                  entries == { i \in DOMAIN stats : stats[i].reviewer = r }
                  n == Count(LAMBDA c : c.mr_author = d.developer /\ c.author = r,
                             call.all_comments)
              IN  IF n = 0
                  THEN entries = {}
                  ELSE /\ Cardinality(entries) = 1
                       /\ \A i \in entries : stats[i].review_count = n
       /\ IntSum(Map(LAMBDA e : IF "analysis" \in DOMAIN e
                                THEN e.analysis.total_reviews
                                ELSE e.total_reviews, Result))
             = Len(call.all_comments)

\* a list of MaxComments comments, on the merge requests of two developers,
\* has been analysed
C19_Witness ==
    /\ Returned({"BiasDetector.analyze_developer_treatment"})
    /\ Len(call.all_comments) = MaxComments
    /\ Len(Result) = 2
    /\ Result[1].total_reviews + Result[2].total_reviews = MaxComments

\* C20: the recommendations of a developer analysis are a function of the
\* bias indicators that fired: two developers of one result of
\* analyze_developer_treatment with the same bias_indicators have the same
\* recommendations, a call of _generate_developer_recommendations returns
\* what it returns for the same indicators and any other reviewer_stats, and
\* no list of recommendations is empty.
C20_RecommendationsFromIndicators ==
    /\ \A d1, d2 \in DeveloperAnalyses :
          /\ d1.analysis.recommendations # <<>>
          /\ d1.analysis.bias_indicators = d2.analysis.bias_indicators
               => d1.analysis.recommendations = d2.analysis.recommendations
    /\ (Returned({"_generate_developer_recommendations"})
           /\ call.reviewer_stats # <<>>) =>
          /\ Result # <<>>
          /\ \A other \in ReviewerStatsDicts \ { <<>> } :
                _generate_developer_recommendations(call.bias_indicators, other)
                  = Result

\* two developers have been analysed for whom the same two indicators
\* fired, each reviewed by one reviewer: the recommendations of the one name
\* alice, those of the other name bob
C20_Witness ==
    /\ Returned({"BiasDetector.analyze_developer_treatment"})
    /\ Len(Result) = 2
    /\ Len(Result[1].bias_indicators) = 2
    /\ Result[1].bias_indicators = Result[2].bias_indicators
    /\ Result[1].recommendations # Result[2].recommendations

\* the LLM call of the call in hand failed or was not possible
LLMCallFailed ==
    \/ ~call.self.available
    \/ Raised(call.response)
    \/ "message" \notin DOMAIN call.response

\* C21: a failure or the absence of the LLM never propagates and never
\* changes the core scores: LLMAnalyzer.analyze returns the neutral scores
\* and LLMAnalyzer.analyze_detailed the neutral analysis when the LLM call
\* fails, and neither raises; GitLabAnalyzer.enhance_with_llm returns every
\* comment unchanged with 'LLM analysis unavailable' when a call fails; and
\* analyze_sentiment returns the TextBlob polarity and the VADER scores,
\* with or without an LLM analyzer registered.
C21_LLMFailureIsSwallowed ==
    /\ Returned({"LLMAnalyzer.analyze"}) =>
          /\ DOMAIN Result = { "compound", "pos", "neu", "neg" }
          /\ LLMCallFailed =>
                Result = [compound |-> QInt(0), pos |-> QInt(0), neu |-> QInt(1),
                          neg |-> QInt(0)]
    /\ Returned({"LLMAnalyzer.analyze_detailed"}) =>
          /\ ~Raised(Result)
          /\ LLMCallFailed =>
                /\ [k \in DOMAIN Result \ { "analysis" } |-> Result[k]]
                     = [sentiment |-> "neutral", tone |-> "neutral",
                        constructiveness |-> "medium", professionalism |-> "medium"]
                /\ \/ Result.analysis = "LLM analysis unavailable"
                   \/ SubSeq(Result.analysis, 1, 21) = "LLM analysis failed: "
    /\ Returned({"GitLabAnalyzer.enhance_with_llm"}) =>
          /\ \A i \in DOMAIN Result : Result[i].comment = call.comments[i]
          /\ (\E i \in DOMAIN call.comments :
                 \/ Raised(call.responses[i])
                 \/ "message" \notin DOMAIN call.responses[i]) =>
                Result = [i \in DOMAIN call.comments |->
                            [comment |-> call.comments[i],
                             llm_analysis |-> "LLM analysis unavailable"]]
    /\ Returned({"SentimentAnalyzer.analyze_sentiment"}) =>
          /\ Result = << call.libraries.polarity, call.libraries.polarity_scores >>
          /\ Result = analyze_sentiment(SentimentAnalyzer__init__, call.libraries)

\* an analyzer whose ollama is there has been asked for the scores of a text
\* and the chat raised: the scores are the neutral ones
C21_Witness ==
    /\ Returned({"LLMAnalyzer.analyze"})
    /\ call.self.available
    /\ Raised(call.response)
    /\ Result.neu = QInt(1)

PatternOps ==
    { "BiasDetector._identify_negative_patterns",
      "BehaviorAnalyzer._identify_negative_patterns" }

\* C22: a reviewer is flagged for over-commenting iff, of the merge requests
\* (told apart by mr_id) the reviewer commented on, those with more than 15
\* of the reviewer's comments are more than 30%; merge requests that share a
\* title are still two.  (The call with no comment at all is C17's.)
C22_OverCommentingByMergeRequest ==
    (Returned(PatternOps) /\ call.comments # <<>>) =>
       LET ids == { c.mr_id : c \in Range(CallReviewerComments) }
           excessive ==
               { id \in ids :
                    Count(LAMBDA c : c.mr_id = id, CallReviewerComments) > 15 }
       IN  "Tends to over-comment on merge requests" \in Range(Result)
             <=> 10 * Cardinality(excessive) > 3 * Cardinality(ids)

\* a reviewer with 8 comments on each of two merge requests that have the
\* same title, and no other, has been flagged for over-commenting
C22_Witness ==
    /\ Returned({"BiasDetector._identify_negative_patterns"})
    /\ Len(CallReviewerComments) = 16
    /\ Count(LAMBDA c : c.mr_id = 1, CallReviewerComments) = 8
    /\ Count(LAMBDA c : c.mr_id = 3, CallReviewerComments) = 8
    /\ Result = << "Tends to over-comment on merge requests" >>

\* C23: a reviewer is flagged for blocking without constructive feedback iff
\* the reviewer has a requested_changes comment and, of these comments,
\* those whose body has none of the constructive keywords of the detector
\* ('suggest', 'recommend', 'consider', 'try', 'maybe', 'could', 'would',
\* 'perhaps', 'how about', 'what if', 'alternative') are more than half.
C23_BlockingByConstructiveKeywords ==
    (Returned(PatternOps) /\ call.comments # <<>>) =>
       LET change_requests ==
               SelectSeq(CallReviewerComments,
                         LAMBDA c : c.approval_status = "requested_changes")
           bare ==
               Count(LAMBDA c : ~BodyHasAny(BiasDetector__init__.constructive_keywords,
                                            c.body),
                     change_requests)
       IN  "Blocks MRs without providing constructive feedback" \in Range(Result)
             <=> (change_requests # <<>> /\ 2 * bare > Len(change_requests))

\* a reviewer whose one change request, 'See the example in the docs', has
\* none of the eleven keywords has not been flagged for blocking
C23_Witness ==
    /\ Returned({"BiasDetector._identify_negative_patterns"})
    /\ Len(CallReviewerComments) = 1
    /\ CallReviewerComments[1].approval_status = "requested_changes"
    /\ CallReviewerComments[1].body = "See the example in the docs"
    /\ "Blocks MRs without providing constructive feedback" \notin Range(Result)

CallReasonHits ==
    { i \in 1..Len(blocking_reasons) :
         \E k \in 1..Len(blocking_reasons[i].keywords) :
            Contains(Lower(call.comment_body), blocking_reasons[i].keywords[k]) }

\* C25: _extract_blocking_reason returns the first category, in the order
\* code_quality, testing, documentation, security, performance, style,
\* unclear, that has a keyword in the lower-cased text, and 'other' iff none
\* has; the result is one of these eight values.
C25_FirstMatchingReason ==
    Returned({"_extract_blocking_reason"}) =>
       /\ Map(LAMBDA r : r.reason, blocking_reasons)
            = << "code_quality", "testing", "documentation", "security",
                 "performance", "style", "unclear" >>
       /\ Result \in { "code_quality", "testing", "documentation", "security",
                       "performance", "style", "unclear", "other" }
       /\ Result = "other" <=> CallReasonHits = {}
       /\ \A i \in CallReasonHits :
             (\A j \in CallReasonHits : i <= j) => Result = blocking_reasons[i].reason

\* a text with keywords of four categories has been given the earliest
C25_Witness ==
    /\ Returned({"_extract_blocking_reason"})
    /\ Cardinality(CallReasonHits) = 4
    /\ \E i \in CallReasonHits :
          /\ \A j \in CallReasonHits : i <= j
          /\ Result = blocking_reasons[i].reason

\* the analyses of BiasDetector (a list of DeveloperTreatment) and of
\* BehaviorAnalyzer (a list of developer and analysis) agree on the
\* treatment and the negative patterns of every developer and reviewer, and
\* on the bias risk of every developer
SameVerdicts(detector_result, analyzer_result) ==
    /\ Len(detector_result) = Len(analyzer_result)
    /\ \A i \in DOMAIN detector_result :
          LET mine == detector_result[i]
              theirs == analyzer_result[i].analysis
          IN  /\ mine.developer_name = analyzer_result[i].developer
              /\ mine.bias_risk = theirs.bias_risk
              /\ Len(mine.reviewer_stats) = Len(theirs.reviewer_stats)
              /\ \A k \in DOMAIN mine.reviewer_stats :
                    /\ mine.reviewer_stats[k].reviewer = theirs.reviewer_stats[k].reviewer
                    /\ mine.reviewer_stats[k].treatment = theirs.reviewer_stats[k].treatment
                    /\ Range(mine.reviewer_stats[k].negative_patterns)
                         = Range(theirs.reviewer_stats[k].negative_patterns)

\* C26: the two implementations are redundant: on the same comment list
\* BehaviorAnalyzer.analyze_developer_treatment gives every developer and
\* reviewer the treatment level and the negative patterns, and every
\* developer the bias risk, that BiasDetector.analyze_developer_treatment
\* gives them.
C26_AnalyzersAgree ==
    Returned({"BiasDetector.analyze_developer_treatment"}) =>
       SameVerdicts(Result,
                    BA_analyze_developer_treatment(BehaviorAnalyzer__init__,
                                                   call.all_comments))

\* carol's merge request has a blocking review by alice and an approval by
\* bob: BiasDetector reports no negative pattern for bob, BehaviorAnalyzer
\* reports one
C26_Witness ==
    /\ Returned({"BiasDetector.analyze_developer_treatment"})
    /\ Len(call.all_comments) = 2
    /\ call.all_comments[1].author = "alice"
    /\ call.all_comments[1].approval_status = "requested_changes"
    /\ call.all_comments[2].author = "bob"
    /\ call.all_comments[2].approval_status = "approved"
    /\ Len(Result) = 1
    /\ Result[1].reviewer_stats[2].negative_patterns = <<>>
    /\ BA_analyze_developer_treatment(BehaviorAnalyzer__init__, call.all_comments)[1]
          .analysis.reviewer_stats[2].negative_patterns # <<>>

\* the negative patterns the class of the call in hand reports for a
\* reviewer when the developer's merge requests have the reviewer's
\* comments only
PatternsOnOwnComments(developer, reviewer) ==
    LET own == SelectSeq(call.all_comments,
                         LAMBDA c : c.mr_author = developer /\ c.author = reviewer)
    IN  IF call.op = "BiasDetector.analyze_developer_treatment"
        THEN _analyze_individual_developer_treatment(detector, developer, own)
                 .reviewer_stats[1].negative_patterns
        ELSE BA_analyze_individual_developer_treatment(
                 BehaviorAnalyzer__init__, developer, own)
                 .reviewer_stats[1].negative_patterns

\* C27: the negative_patterns of a reviewer in a developer's analysis depend
\* on the reviewer's own comments on the developer's merge requests only:
\* they are the patterns reported when the comments of the other reviewers
\* are taken away.
C27_PatternsOfOwnCommentsOnly ==
    \A d \in DeveloperAnalyses :
       \A e \in Range(d.analysis.reviewer_stats) :
          e.negative_patterns = PatternsOnOwnComments(d.developer, e.reviewer)

\* BehaviorAnalyzer has analysed a merge request of carol's with a
\* blocking review by alice and an approval by bob: bob is reported to
\* nitpick, which is not reported of his approval alone
C27_Witness ==
    /\ Returned({"BehaviorAnalyzer.analyze_developer_treatment"})
    /\ Len(call.all_comments) = 2
    /\ call.all_comments[1].author = "alice"
    /\ call.all_comments[2].author = "bob"
    /\ call.all_comments[2].approval_status = "approved"
    /\ Len(Result) = 1
    /\ "Shows nitpicking behavior with short critical comments"
          \in Range(Result[1].analysis.reviewer_stats[2].negative_patterns)
    /\ PatternsOnOwnComments("carol", "bob") = <<>>

\* C28: a call of MetricsCalculator.calculate_bias_indicators or of
\* MetricsCalculator.calculate_reviewer_consistency with a comment list in
\* which every approval action is one of approved, requested_changes and
\* commented returns a result and raises nothing.
C28_MetricsCalculatorReturns ==
    Returned({ "MetricsCalculator.calculate_bias_indicators",
               "MetricsCalculator.calculate_reviewer_consistency" })
    => LET comments == IF call.op = "MetricsCalculator.calculate_bias_indicators"
                       THEN call.all_comments ELSE call.comments
       IN  (\A i \in DOMAIN comments :
               comments[i].approval_status
                   \in { "approved", "requested_changes", "commented" })
           => ~Raised(Result)

\* calculate_reviewer_consistency, called with three comments of one
\* reviewer that request changes, has raised KeyError
C28_Witness ==
    /\ Returned({"MetricsCalculator.calculate_reviewer_consistency"})
    /\ Len(call.comments) = 3
    /\ \A i \in DOMAIN call.comments :
          call.comments[i].approval_status = "requested_changes"
    /\ Result = Raise("KeyError")

\* the authors of the call whose merge requests hold at least 5 comments
\* with a mean sentiment below the detector's negative_sentiment_threshold
CallFlaggedAuthors ==
    { a \in { c.mr_author : c \in Range(call.all_comments) } :
         /\ Len(CallSentimentsOf(a)) >= 5
         /\ QLt(CallMeanOf(a), BiasDetector__init__.negative_sentiment_threshold) }

\* C29: BiasDetector.calculate_bias_indicators rates the overall risk
\* medium only when the bias score is in (40, 70] and no author is flagged;
\* when an author is flagged the risk is high; specific_risks has exactly
\* one entry per flagged author; and mitigation_strategies is non-empty iff
\* the overall risk is medium or high.
C29_RiskRisksAndMitigation ==
    Returned({"BiasDetector.calculate_bias_indicators"}) =>
       /\ Result.overall_risk = "medium" =>
              /\ QGt(StatedBiasScoreSquared, QInt(40 * 40))
              /\ QLe(StatedBiasScoreSquared, QInt(70 * 70))
              /\ CallFlaggedAuthors = {}
       /\ CallFlaggedAuthors # {} => Result.overall_risk = "high"
       /\ Len(Result.specific_risks) = Cardinality(CallFlaggedAuthors)
       /\ Range(Result.specific_risks)
             = { "High bias risk detected for " \o a : a \in CallFlaggedAuthors }
       /\ Result.mitigation_strategies # <<>>
             <=> Result.overall_risk \in { "medium", "high" }

\* BiasDetector, called with comments that flag no author and whose bias
\* score is in (40, 70], has rated the risk medium, named no specific risk
\* and listed the mitigation strategies
C29_Witness ==
    /\ Returned({"BiasDetector.calculate_bias_indicators"})
    /\ CallFlaggedAuthors = {}
    /\ QGt(StatedBiasScoreSquared, QInt(40 * 40))
    /\ QLe(StatedBiasScoreSquared, QInt(70 * 70))
    /\ Result.overall_risk = "medium"
    /\ Result.specific_risks = <<>>
    /\ Len(Result.mitigation_strategies) = 5

\* C30: for every reviewer entry in the result of analyze_developer_treatment
\* the numbers of the reviewer's approvals, change requests and plain
\* comments on the developer's merge requests add up to review_count, which
\* is at least 1; approval_rate and change_request_rate lie in [0,1] and
\* add up to at most 1; the frequency of the blocking analysis is the number
\* of change requests; and the developer's sentiment_range is at least 0, and
\* is 0 when the developer has a single reviewer.
C30_ReviewerEntryArithmetic ==
    \A d \in DeveloperAnalyses :
       /\ \A e \in Range(d.analysis.reviewer_stats) :
              LET actions(approval_status) ==
                      Count(LAMBDA c : /\ c.mr_author = d.developer
                                       /\ c.author = e.reviewer
                                       /\ c.approval_status = approval_status,
                            call.all_comments)
              IN  /\ actions("approved") + actions("requested_changes")
                        + actions("commented") = e.review_count
                  /\ e.review_count >= 1
                  /\ InUnitInterval(e.approval_rate)
                  /\ InUnitInterval(e.change_request_rate)
                  /\ QLe(QAdd(e.approval_rate, e.change_request_rate), QInt(1))
                  /\ e.blocking_analysis.frequency = actions("requested_changes")
       /\ QGe(d.analysis.sentiment_range, QInt(0))
       /\ Len(d.analysis.reviewer_stats) = 1
             => d.analysis.sentiment_range = QInt(0)

\* a developer has been analysed whose one reviewer approved once, requested
\* changes once and commented once: the rates are 1/3 each, the blocking
\* frequency is 1 and the sentiment range is 0
C30_Witness ==
    \E d \in DeveloperAnalyses :
       /\ Len(call.all_comments) = 3
       /\ Len(d.analysis.reviewer_stats) = 1
       /\ d.analysis.reviewer_stats[1].review_count = 3
       /\ d.analysis.reviewer_stats[1].approval_rate = Q(1, 3)
       /\ d.analysis.reviewer_stats[1].change_request_rate = Q(1, 3)
       /\ d.analysis.reviewer_stats[1].blocking_analysis.frequency = 1
       /\ d.analysis.sentiment_range = QInt(0)

=============================================================================
